---------------------------- MODULE Spec2Model ----------------------------
(***************************************************************************)
(* Job / batch lifecycle engine of the mcp-nano-banana server              *)
(* (src/index.ts).                                                         *)
(*                                                                         *)
(* The server is a single-threaded event-loop program.  Every handler runs *)
(* to completion between two `await`s, so one action of this model is one  *)
(* synchronous segment of a handler: from the arrival of a tool call, or   *)
(* from the resumption after an `await`, up to the next `await` or the     *)
(* return.  A handler suspended at an `await` is a record in `tasks`; any  *)
(* other handler, and any settlement of an external generation call, may   *)
(* run while it is suspended.                                              *)
(*                                                                         *)
(* Identifiers.  generateJobId / generateBatchId build an id from          *)
(* Date.now() and nine random base-36 digits.  The model takes the random  *)
(* suffix to be fresh: an id is the ordinal of its allocation.             *)
(*                                                                         *)
(* Strings the code inspects character by character (file paths, base64    *)
(* payloads, prompts) are sequences of one-character strings.              *)
(***************************************************************************)
EXTENDS Integers, Sequences, FiniteSets, TLC

(***************************************************************************)
(* Bounds of the model.                                                    *)
(***************************************************************************)
MaxJobs == 2
MaxBatches == 1
MaxTasks == 1
MaxClock == 1
MaxFiles == 2
MaxMembers == 3

(***************************************************************************)
(* Program constants.                                                      *)
(***************************************************************************)
MaxBatchPrompts == 20
MinBatchPrompts == 1
PromptDisplayLen == 50

AspectRatios == {"1:1", "3:4", "4:3", "9:16", "16:9"}

AVAILABLE_MODELS ==
  {"gemini-2.5-flash-image", "gemini-2.5-flash-image-preview",
   "gemini-3-pro-image-preview", "gemini-2.0-flash-exp-image-generation"}

DefaultAspectRatio == "1:1"
DefaultModel == "gemini-3-pro-image-preview"

(***************************************************************************)
(* Optional fields (`result?`, `error?`, `completedAt?`): the empty tuple  *)
(* is `undefined`, a one-element tuple is a present value.                 *)
(***************************************************************************)
Undefined == <<>>
Some(v) == <<v>>
IsSet(o) == o # Undefined
ValueOf(o) == o[1]

Max(a, b) == IF a >= b THEN a ELSE b
Min(a, b) == IF a <= b THEN a ELSE b

Range(s) == {s[i] : i \in DOMAIN s}


(***************************************************************************)
(* Input domains.                                                          *)
(***************************************************************************)
\* Prompts: a short one, and one longer than the 50 characters list_jobs
\* and getBatchStatus display.
ShortPrompt == <<"c", "a", "t">>
LongPrompt == [i \in 1..(PromptDisplayLen + 1) |-> IF i % 2 = 1 THEN "a" ELSE "b"]
Prompts == {ShortPrompt, LongPrompt}

\* Base64 image data returned by the generation service.
PayloadABC == <<"Q", "U", "J", "D">>
PayloadHi == <<"a", "G", "k", "=">>
Payloads == {PayloadABC, PayloadHi}

\* A part of a candidate: a text part has no inlineData; an image part has
\* inlineData whose data may be the empty string.
TextPart == [inlineData |-> Undefined]
ImagePart(d) == [inlineData |-> Some(d)]

\* Responses of generateContent: a sequence of candidates, each the
\* sequence of its content parts.
Responses ==
  { << <<ImagePart(PayloadABC)>> >>,
    << <<TextPart, ImagePart(PayloadHi)>> >>,
    << >>,
    << <<TextPart>> >>,
    << <<ImagePart(<<>>)>> >>,
    << <<TextPart>>, <<ImagePart(PayloadABC)>> >> }
CoreResponses == { << <<ImagePart(PayloadABC)>> >>, << >> }
PayloadResponses == { << <<ImagePart(PayloadABC)>> >>, << <<ImagePart(PayloadHi)>> >> }

\* Values generateContent may throw or reject with: Error objects with a
\* message, and a non-Error value.
ErrorObj(m) == [isError |-> TRUE, message |-> m]
NonError(t, v) == [isError |-> FALSE, type |-> t, value |-> v]
Thrown ==
  {ErrorObj("quota exceeded"), ErrorObj(""), NonError("undefined", ""),
   NonError("string", "timeout")}
CoreThrown == {ErrorObj("quota exceeded")}

NoImageDataMessage == "No image data in response"

Statuses == {"pending", "processing", "completed", "failed"}
Terminal == {"completed", "failed"}

(***************************************************************************)
(* Strings: path (resolve, dirname, join), endsWith, number formatting and *)
(* base64 decoding, on sequences of characters.                            *)
(***************************************************************************)
Str4(a, b, c, d) == <<a, b, c, d>>
Slash == "/"
PngExt == Str4(".", "p", "n", "g")

\* String.prototype.endsWith
EndsWith(s, suffix) ==
  /\ Len(s) >= Len(suffix)
  /\ SubSeq(s, Len(s) - Len(suffix) + 1, Len(s)) = suffix

\* s.split("/")
RECURSIVE SplitPath(_)
SplitPath(s) ==
  IF \E i \in DOMAIN s : s[i] = Slash
  THEN LET i == CHOOSE k \in DOMAIN s :
                  s[k] = Slash /\ \A m \in 1..(k - 1) : s[m] # Slash
       IN <<SubSeq(s, 1, i - 1)>> \o SplitPath(SubSeq(s, i + 1, Len(s)))
  ELSE <<s>>

\* path normalisation: empty and "." segments are dropped, ".." removes the
\* segment before it (and is dropped at the root)
RECURSIVE NormalizeSegs(_, _)
NormalizeSegs(segs, acc) ==
  IF segs = <<>> THEN acc
  ELSE LET h == Head(segs)
           acc2 == IF h = <<>> \/ h = <<".">> THEN acc
                   ELSE IF h = <<".", ".">>
                        THEN (IF acc = <<>> THEN acc ELSE SubSeq(acc, 1, Len(acc) - 1))
                        ELSE Append(acc, h)
       IN NormalizeSegs(Tail(segs), acc2)

\* process.cwd()
Cwd == << <<"w">> >>

IsAbsolute(p) == Len(p) > 0 /\ p[1] = Slash

\* path.resolve(p): the segments of the absolute, normalised path
resolve(p) ==
  NormalizeSegs(SplitPath(p), IF IsAbsolute(p) THEN <<>> ELSE Cwd)

\* the absolute path as a string: "/" for the root, else "/seg" per segment
RECURSIVE PathString(_)
PathString(segs) ==
  IF segs = <<>> THEN <<Slash>>
  ELSE IF Len(segs) = 1 THEN <<Slash>> \o segs[1]
  ELSE PathString(SubSeq(segs, 1, Len(segs) - 1)) \o <<Slash>> \o segs[Len(segs)]

\* path.dirname of an absolute normalised path
dirname(segs) == IF segs = <<>> THEN <<>> ELSE SubSeq(segs, 1, Len(segs) - 1)

\* path.join(dir, name) for an absolute normalised dir
join(dirSegs, name) == NormalizeSegs(SplitPath(name), dirSegs)

Digits == <<"0", "1", "2", "3", "4", "5", "6", "7", "8", "9">>

\* `${n}` for a non-negative integer
RECURSIVE NumberToString(_)
NumberToString(n) ==
  IF n < 10 THEN <<Digits[n + 1]>>
  ELSE NumberToString(n \div 10) \o <<Digits[(n % 10) + 1]>>

Base64Alphabet ==
  <<"A", "B", "C", "D", "E", "F", "G", "H", "I", "J", "K", "L", "M",
    "N", "O", "P", "Q", "R", "S", "T", "U", "V", "W", "X", "Y", "Z",
    "a", "b", "c", "d", "e", "f", "g", "h", "i", "j", "k", "l", "m",
    "n", "o", "p", "q", "r", "s", "t", "u", "v", "w", "x", "y", "z",
    "0", "1", "2", "3", "4", "5", "6", "7", "8", "9", "+", "/">>

Base64Value(c) == (CHOOSE i \in DOMAIN Base64Alphabet : Base64Alphabet[i] = c) - 1

\* the characters before the first "=" that belong to the alphabet
Base64Chars(s) ==
  LET stop == IF \E i \in DOMAIN s : s[i] = "="
              THEN (CHOOSE i \in DOMAIN s :
                      s[i] = "=" /\ \A k \in 1..(i - 1) : s[k] # "=") - 1
              ELSE Len(s)
  IN SelectSeq(SubSeq(s, 1, stop), LAMBDA c : c \in Range(Base64Alphabet))

\* Buffer.from(s, "base64"): every 4 characters give 3 bytes; 2 or 3
\* remaining characters give 1 or 2 bytes
RECURSIVE DecodeSextets(_)
DecodeSextets(v) ==
  IF Len(v) < 2 THEN <<>>
  ELSE LET b1 == (v[1] * 4 + (v[2] \div 16)) % 256
       IN IF Len(v) = 2 THEN <<b1>>
          ELSE LET b2 == ((v[2] % 16) * 16 + (v[3] \div 4)) % 256
               IN IF Len(v) = 3 THEN <<b1, b2>>
                  ELSE <<b1, b2, ((v[3] % 4) * 64 + v[4]) % 256>>
                         \o DecodeSextets(SubSeq(v, 5, Len(v)))

BufferFromBase64(s) ==
  LET cs == Base64Chars(s)
  IN DecodeSextets([i \in DOMAIN cs |-> Base64Value(cs[i])])

(***************************************************************************)
(* State.                                                                  *)
(***************************************************************************)
VARIABLES
  jobs,        \* the Map `jobs`, in insertion order: a sequence of ImageJob
  batchJobs,   \* the Map `batchJobs`, in insertion order: a sequence of BatchJob
  nextBatchId, \* number of batch ids generated so far
  calls,       \* the generateContent invocations issued, in order
  statusLog,   \* per job, the values assigned to its status field, in order
  now,         \* Date.now()
  tasks,       \* handlers suspended at an await
  dirs,        \* file system: the directories that exist
  files,       \* file system: path -> bytes of the regular files
  resp         \* the response being returned to the caller, if any

vars == <<jobs, batchJobs, nextBatchId, calls, statusLog, now, tasks, dirs, files, resp>>

storeVars == <<jobs, batchJobs, nextBatchId, calls, statusLog>>
fsVars == <<dirs, files>>

NoResp == [tool |-> "none"]
NoTask == [pc |-> "free"]

Idle == resp = NoResp

JobIds == 1..Len(jobs)
BatchIds == {batchJobs[k].id : k \in DOMAIN batchJobs}

\* Map.get on `jobs`: ids are allocation ordinals, so job j is jobs[j].
HasJob(j) == j \in JobIds
GetJob(j) == jobs[j]

\* Map.get on `batchJobs`.
HasBatch(b) == b \in BatchIds
BatchIndex(b) == CHOOSE k \in DOMAIN batchJobs : batchJobs[k].id = b
GetBatch(b) == batchJobs[BatchIndex(b)]

(***************************************************************************)
(* Identifier generator.                                                   *)
(***************************************************************************)
generateJobId == Len(jobs) + 1
generateBatchId == nextBatchId + 1

(***************************************************************************)
(* Dispatcher: generateImage.                                              *)
(***************************************************************************)
\* response.candidates?.[0]?.content?.parts?.find(part => part.inlineData)
FirstInlinePart(parts) ==
  IF \E i \in DOMAIN parts : IsSet(parts[i].inlineData)
  THEN Some(parts[CHOOSE i \in DOMAIN parts :
                    /\ IsSet(parts[i].inlineData)
                    /\ \A k \in 1..(i - 1) : ~IsSet(parts[k].inlineData)])
  ELSE Undefined

imagePart(response) ==
  IF Len(response) = 0 THEN Undefined ELSE FirstInlinePart(response[1])

\* imagePart?.inlineData?.data, "" standing for every falsy value
ImageData(response) ==
  IF IsSet(imagePart(response))
  THEN ValueOf(ValueOf(imagePart(response)).inlineData)
  ELSE <<>>

\* String(v) of a thrown value that is no Error
StringOf(e) == IF e.type = "string" THEN e.value ELSE e.type

\* error instanceof Error ? error.message : String(error)
ErrorMessage(e) == IF e.isError THEN e.message ELSE StringOf(e)

\* statusLog: the log after `status` is written to the status field
LogWrite(log, status) ==
  IF log # <<>> /\ log[Len(log)] = status THEN log ELSE Append(log, status)

NewJob(id, prompt) ==
  [id |-> id, status |-> "pending", prompt |-> prompt, result |-> Undefined,
   error |-> Undefined, createdAt |-> now, completedAt |-> Undefined]

\* Fault: line 171 left out, the job stays pending while the call runs.
StartProcessing_Skipped(job) == job

\* line 171
StartProcessing(job) == [job EXCEPT !.status = "processing"]

\* Fault: the status is set to completed without storing the payload.
CompleteJob_NoResult(job, data) ==
  [job EXCEPT !.status = "completed", !.completedAt = Some(now)]

\* the then-branch of lines 187-191
CompleteJob(job, data) ==
  [job EXCEPT !.status = "completed", !.result = Some(data),
              !.completedAt = Some(now)]

\* Fault: the catch block does not stamp completedAt.
FailJob_NoStamp(job, e) ==
  [job EXCEPT !.status = "failed", !.error = Some(ErrorMessage(e))]

\* the catch block, lines 195-200
FailJob(job, e) ==
  [job EXCEPT !.status = "failed", !.error = Some(ErrorMessage(e)),
              !.completedAt = Some(now)]

\* Fault: a response without image data is ignored instead of thrown.
SettleJob_SilentNoImage(job, outcome) ==
  IF outcome.ok
  THEN IF ImageData(outcome.response) # <<>>
       THEN CompleteJob(job, ImageData(outcome.response))
       ELSE job
  ELSE FailJob(job, outcome.thrown)

\* What the continuation of the async block does with the settled call:
\* outcome is [ok |-> TRUE, response |-> r] or [ok |-> FALSE, thrown |-> e].
SettleJob(job, outcome) ==
  IF outcome.ok
  THEN IF ImageData(outcome.response) # <<>>
       THEN CompleteJob(job, ImageData(outcome.response))
       ELSE FailJob(job, ErrorObj(NoImageDataMessage))
  ELSE FailJob(job, outcome.thrown)

Resolved(r) == [ok |-> TRUE, response |-> r]
Rejected(e) == [ok |-> FALSE, thrown |-> e]

\* The outcomes of the awaited call: every response and thrown value above;
\* one image, one response without image and one rejection; the two images.
Outcomes == {Resolved(r) : r \in Responses} \cup {Rejected(e) : e \in Thrown}
CoreOutcomes == {Resolved(r) : r \in CoreResponses} \cup {Rejected(e) : e \in CoreThrown}
PayloadOutcomes == {Resolved(r) : r \in PayloadResponses}

NoThrow == [isError |-> FALSE, type |-> "nothing thrown", value |-> ""]

\* The synchronous part of generateImage: lines 158-171 create the job and
\* move it to processing, line 173 invokes generateContent, which either
\* returns a promise (syncThrow = NoThrow) or throws, and then the catch
\* block runs at once.  Returns the job id (generateJobId).
generateImage(prompt, aspectRatio, model, syncThrow) ==
  LET jobId == generateJobId
      job0 == NewJob(jobId, prompt)
      job1 == StartProcessing(job0)
      job2 == IF syncThrow = NoThrow THEN job1 ELSE FailJob(job1, syncThrow)
  IN /\ jobs' = Append(jobs, job2)
     /\ statusLog' = Append(statusLog,
                            LogWrite(LogWrite(<<job0.status>>, job1.status), job2.status))
     /\ calls' = Append(calls,
                        [jobId |-> jobId, model |-> model, contents |-> <<prompt>>,
                         aspectRatio |-> aspectRatio,
                         state |-> IF syncThrow = NoThrow THEN "inflight" ELSE "settled"])

\* Fault: the continuation of a call runs again after the call has settled.
SettleCall_Twice(c, outcome) ==
  LET j == calls[c].jobId
      job == SettleJob(jobs[j], outcome)
  IN /\ Idle
     /\ calls' = [calls EXCEPT ![c].state = "settled"]
     /\ jobs' = [jobs EXCEPT ![j] = job]
     /\ statusLog' = [statusLog EXCEPT ![j] = LogWrite(@, job.status)]
     /\ UNCHANGED <<batchJobs, nextBatchId, now, tasks, dirs, files, resp>>

\* The awaited generateContent call of job calls[c].jobId settles, and the
\* rest of the async block (lines 182-200) runs.
\* Fault: a failed call is issued again instead of failing the job.
SettleCall_Retry(c, outcome) ==
  LET j == calls[c].jobId
      job == SettleJob(jobs[j], outcome)
  IN /\ Idle
     /\ calls[c].state = "inflight"
     /\ IF job.status = "failed"
        THEN /\ calls' = Append([calls EXCEPT ![c].state = "settled"], calls[c])
             /\ UNCHANGED <<jobs, statusLog>>
        ELSE /\ calls' = [calls EXCEPT ![c].state = "settled"]
             /\ jobs' = [jobs EXCEPT ![j] = job]
             /\ statusLog' = [statusLog EXCEPT ![j] = LogWrite(@, job.status)]
     /\ UNCHANGED <<batchJobs, nextBatchId, now, tasks, dirs, files, resp>>

\* Fault: a failed job is dispatched again.
SettleCall_Reopens(c, outcome) ==
  LET j == calls[c].jobId
      job == SettleJob(jobs[j], outcome)
  IN /\ Idle
     /\ IF calls[c].state = "inflight"
        THEN /\ calls' = [calls EXCEPT ![c].state = "settled"]
             /\ jobs' = [jobs EXCEPT ![j] = job]
             /\ statusLog' = [statusLog EXCEPT ![j] = LogWrite(@, job.status)]
        ELSE /\ jobs[j].status = "failed"
             /\ calls' = [calls EXCEPT ![c].state = "inflight"]
             /\ jobs' = [jobs EXCEPT ![j].status = "processing"]
             /\ statusLog' = [statusLog EXCEPT ![j] = LogWrite(@, "processing")]
     /\ UNCHANGED <<batchJobs, nextBatchId, now, tasks, dirs, files, resp>>

\* Fault: the settlement of the last member stamps the batch.
SettleCall_StampsBatch(c, outcome) ==
  LET j == calls[c].jobId
      job == SettleJob(jobs[j], outcome)
  IN /\ Idle
     /\ calls[c].state = "inflight"
     /\ calls' = [calls EXCEPT ![c].state = "settled"]
     /\ jobs' = [jobs EXCEPT ![j] = job]
     /\ statusLog' = [statusLog EXCEPT ![j] = LogWrite(@, job.status)]
     /\ batchJobs' = [k \in DOMAIN batchJobs |->
                        IF /\ ~IsSet(batchJobs[k].completedAt)
                           /\ \A i \in DOMAIN batchJobs[k].jobIds :
                                [jobs EXCEPT ![j] = job][batchJobs[k].jobIds[i]].status
                                  \in {"completed", "failed"}
                        THEN [batchJobs[k] EXCEPT !.completedAt = Some(now)]
                        ELSE batchJobs[k]]
     /\ UNCHANGED <<nextBatchId, now, tasks, dirs, files, resp>>

SettleCall(c, outcome) ==
  LET j == calls[c].jobId
      job == SettleJob(jobs[j], outcome)
  IN /\ Idle
     /\ calls[c].state = "inflight"
     /\ calls' = [calls EXCEPT ![c].state = "settled"]
     /\ jobs' = [jobs EXCEPT ![j] = job]
     /\ statusLog' = [statusLog EXCEPT ![j] = LogWrite(@, job.status)]
     /\ UNCHANGED <<batchJobs, nextBatchId, now, tasks, dirs, files, resp>>

\* Fault: records expire as time passes.
Tick_Expires ==
  /\ Idle
  /\ now < MaxClock
  /\ now' = now + 1
  /\ batchJobs' = <<>>
  /\ UNCHANGED <<jobs, nextBatchId, calls, statusLog, tasks, dirs, files, resp>>

\* Date.now() advances.
Tick ==
  /\ Idle
  /\ now < MaxClock
  /\ now' = now + 1
  /\ UNCHANGED <<jobs, batchJobs, nextBatchId, calls, statusLog, tasks, dirs, files, resp>>


(***************************************************************************)
(* Tool calls: responses, errors, suspended handlers.                      *)
(***************************************************************************)
\* An Error thrown by a handler.  `message` is the fixed text of the
\* template, `id` the identifier interpolated into it (0 if none) and
\* `detail` the other interpolated value ("" if none).
Err(message, id, detail) == [message |-> message, id |-> id, detail |-> detail]

JobNotFound(j) == Err("Job not found", j, "")
JobNotCompleted(j, status) == Err("Job is not completed", j, status)
JobHasNoResult(j) == Err("Job has no result data", j, "")
MustEndInPng == Err("File path must end in .png", 0, "")
BatchNotFound(b) == Err("Batch not found", b, "")
InvalidArguments == Err("Invalid arguments", 0, "")
UnknownTool(n) == Err("Unknown tool", 0, n)
IOError(code) == Err("fs error", 0, code)

\* The response of a tool call, with the call it answers (tool, request):
\* `body` on success, `error` on failure.  fsCalls counts the mkdir and
\* writeFile calls the handler issued.
Success(tool, request, body, fsCalls) ==
  [tool |-> tool, request |-> request, isError |-> FALSE, body |-> body,
   fsCalls |-> fsCalls]
Failure(tool, request, error, fsCalls) ==
  [tool |-> tool, request |-> request, isError |-> TRUE, error |-> error,
   fsCalls |-> fsCalls]

TaskIds == 1..MaxTasks
FreeSlots == {t \in TaskIds : tasks[t] = NoTask}
Suspend(task) ==
  tasks' = [tasks EXCEPT ![CHOOSE t \in FreeSlots : \A u \in FreeSlots : t <= u] = task]

\* A new tool call is taken up when no response is being written; a call
\* that may suspend needs a free slot.
CanStart == Idle
CanSuspend == FreeSlots # {}

Init ==
  /\ jobs = <<>>
  /\ batchJobs = <<>>
  /\ nextBatchId = 0
  /\ calls = <<>>
  /\ statusLog = <<>>
  /\ now = 0
  /\ tasks = [t \in TaskIds |-> NoTask]
  /\ dirs = {Cwd}
  /\ files = [p \in {} |-> <<>>]
  /\ resp = NoResp

\* The response has been written to the transport.
Respond ==
  /\ ~Idle
  /\ resp' = NoResp
  /\ UNCHANGED <<jobs, batchJobs, nextBatchId, calls, statusLog, now, tasks, dirs, files>>

(***************************************************************************)
(* generate_image                                                          *)
(***************************************************************************)
\* Arguments of generate_image: valid ones, and ones the schema rejects
\* (no prompt, an aspect ratio or a model outside the enumeration).
PlainArgs == [prompt |-> Some(ShortPrompt), aspectRatio |-> Undefined, model |-> Undefined]
ExplicitArgs ==
  [prompt |-> Some(LongPrompt), aspectRatio |-> Some("16:9"),
   model |-> Some("gemini-2.5-flash-image")]
InvalidGenerateImageArgs ==
  { [prompt |-> Undefined, aspectRatio |-> Undefined, model |-> Undefined],
    [prompt |-> Some(ShortPrompt), aspectRatio |-> Some("2:1"), model |-> Undefined],
    [prompt |-> Some(ShortPrompt), aspectRatio |-> Undefined, model |-> Some("dall-e-3")] }
GenerateImageArgs == {PlainArgs, ExplicitArgs} \cup InvalidGenerateImageArgs
CoreGenerateImageArgs == {PlainArgs} \cup InvalidGenerateImageArgs

OrDefault(o, d) == IF IsSet(o) THEN ValueOf(o) ELSE d

\* GenerateImageSchema.parse
GenerateImageSchemaOk(args) ==
  /\ IsSet(args.prompt)
  /\ IsSet(args.aspectRatio) => ValueOf(args.aspectRatio) \in AspectRatios
  /\ IsSet(args.model) => ValueOf(args.model) \in AVAILABLE_MODELS

\* Values generateContent throws before returning a promise.
SyncThrown == {ErrorObj("quota exceeded")}
SyncOutcomes == {NoThrow} \cup SyncThrown

\* Fault: the job is created before the arguments are validated.
GenerateImageInvalid_AfterCreate(args) ==
  /\ CanStart
  /\ ~GenerateImageSchemaOk(args)
  /\ resp' = Failure("generate_image", args, InvalidArguments, 0)
  /\ IF IsSet(args.prompt) /\ Len(jobs) < MaxJobs
     THEN generateImage(ValueOf(args.prompt), DefaultAspectRatio, DefaultModel, NoThrow)
     ELSE UNCHANGED <<jobs, calls, statusLog>>
  /\ UNCHANGED <<batchJobs, nextBatchId, now, tasks, dirs, files>>

GenerateImageInvalid(args) ==
  /\ CanStart
  /\ ~GenerateImageSchemaOk(args)
  /\ resp' = Failure("generate_image", args, InvalidArguments, 0)
  /\ UNCHANGED <<jobs, batchJobs, nextBatchId, calls, statusLog, now, tasks, dirs, files>>

\* Fault: generateImage awaits its async block, so the handler answers
\* only when the generation call has settled.
GenerateImage_Awaited(args, syncThrow) ==
  /\ CanStart
  /\ GenerateImageSchemaOk(args)
  /\ Len(jobs) < MaxJobs
  /\ \E outcome \in CoreOutcomes :
       LET job == SettleJob(StartProcessing(NewJob(generateJobId, ValueOf(args.prompt))),
                            outcome)
       IN /\ jobs' = Append(jobs, job)
          /\ statusLog' = Append(statusLog, <<"pending", "processing", job.status>>)
          /\ calls' = Append(calls,
                             [jobId |-> generateJobId,
                              model |-> OrDefault(args.model, DefaultModel),
                              contents |-> <<ValueOf(args.prompt)>>,
                              aspectRatio |-> OrDefault(args.aspectRatio, DefaultAspectRatio),
                              state |-> "settled"])
  /\ resp' = Success("generate_image", args,
                     [jobId |-> generateJobId, status |-> "pending"], 0)
  /\ UNCHANGED <<batchJobs, nextBatchId, now, tasks, dirs, files>>

\* Fault: an error thrown by the generation call reaches the handler.
GenerateImage_Propagates(args, syncThrow) ==
  /\ CanStart
  /\ GenerateImageSchemaOk(args)
  /\ Len(jobs) < MaxJobs
  /\ generateImage(ValueOf(args.prompt), OrDefault(args.aspectRatio, DefaultAspectRatio),
                   OrDefault(args.model, DefaultModel), syncThrow)
  /\ resp' = IF syncThrow = NoThrow
             THEN Success("generate_image", args,
                          [jobId |-> generateJobId, status |-> "pending"], 0)
             ELSE Failure("generate_image", args, Err(ErrorMessage(syncThrow), 0, ""), 0)
  /\ UNCHANGED <<batchJobs, nextBatchId, now, tasks, dirs, files>>

\* The handler awaits generateImage, whose promise is already resolved with
\* the job id, and answers with the literal status "pending".
\* Fault: the generation block is deferred to a later turn of the event loop.
GenerateImage_Deferred(args, syncThrow) ==
  /\ CanStart
  /\ GenerateImageSchemaOk(args)
  /\ Len(jobs) < MaxJobs
  /\ jobs' = Append(jobs, NewJob(generateJobId, ValueOf(args.prompt)))
  /\ statusLog' = Append(statusLog, <<"pending">>)
  /\ calls' = Append(calls,
                     [jobId |-> generateJobId,
                      model |-> OrDefault(args.model, DefaultModel),
                      contents |-> <<ValueOf(args.prompt)>>,
                      aspectRatio |-> OrDefault(args.aspectRatio, DefaultAspectRatio),
                      state |-> "inflight"])
  /\ resp' = Success("generate_image", args,
                     [jobId |-> generateJobId, status |-> "pending"], 0)
  /\ UNCHANGED <<batchJobs, nextBatchId, now, tasks, dirs, files>>

GenerateImage(args, syncThrow) ==
  /\ CanStart
  /\ GenerateImageSchemaOk(args)
  /\ Len(jobs) < MaxJobs
  /\ generateImage(ValueOf(args.prompt), OrDefault(args.aspectRatio, DefaultAspectRatio),
                   OrDefault(args.model, DefaultModel), syncThrow)
  /\ resp' = Success("generate_image", args,
                     [jobId |-> generateJobId, status |-> "pending"], 0)
  /\ UNCHANGED <<batchJobs, nextBatchId, now, tasks, dirs, files>>

(***************************************************************************)
(* check_job_status, list_jobs                                             *)
(***************************************************************************)
\* jobId arguments: absent, ids of jobs, and ids that name no job
JobIdArgs == {Undefined} \cup {Some(j) : j \in 1..(MaxJobs + 1)}

\* prompt.substring(0, 50) + (prompt.length > 50 ? "..." : "")
DisplayPrompt(prompt) ==
  SubSeq(prompt, 1, Min(Len(prompt), PromptDisplayLen))
    \o (IF Len(prompt) > PromptDisplayLen THEN <<".", ".", ".">> ELSE <<>>)

\* the response object built in lines 612-631; an absent key is Undefined
\* Fault: the answer carries the stored payload.
JobStatusBody_WithResult(job) ==
  [jobId |-> job.id, status |-> job.status, prompt |-> job.prompt,
   createdAt |-> job.createdAt,
   completedAt |-> job.completedAt,
   hasResult |-> IF job.status = "completed" THEN Some(TRUE) ELSE Undefined,
   error |-> IF job.status = "failed" THEN job.error ELSE Undefined,
   result |-> job.result]

JobStatusBody(job) ==
  [jobId |-> job.id, status |-> job.status, prompt |-> job.prompt,
   createdAt |-> job.createdAt,
   completedAt |-> job.completedAt,
   hasResult |-> IF job.status = "completed" THEN Some(TRUE) ELSE Undefined,
   error |-> IF job.status = "failed" THEN job.error ELSE Undefined]

CheckJobStatus(arg) ==
  /\ CanStart
  /\ resp' = IF ~IsSet(arg) THEN Failure("check_job_status", arg, InvalidArguments, 0)
             ELSE IF ~HasJob(ValueOf(arg))
                  THEN Failure("check_job_status", arg, JobNotFound(ValueOf(arg)), 0)
                  ELSE Success("check_job_status", arg,
                               JobStatusBody(GetJob(ValueOf(arg))), 0)
  /\ UNCHANGED <<jobs, batchJobs, nextBatchId, calls, statusLog, now, tasks, dirs, files>>

JobListEntry(job) ==
  [jobId |-> job.id, status |-> job.status, prompt |-> DisplayPrompt(job.prompt),
   createdAt |-> job.createdAt, completedAt |-> job.completedAt]

\* Fault: the newest job is listed first.
ListJobs_NewestFirst ==
  /\ CanStart
  /\ resp' = Success("list_jobs", Undefined,
                     [totalJobs |-> Len(jobs),
                      jobs |-> [k \in DOMAIN jobs |-> JobListEntry(jobs[Len(jobs) + 1 - k])]], 0)
  /\ UNCHANGED <<jobs, batchJobs, nextBatchId, calls, statusLog, now, tasks, dirs, files>>

ListJobs ==
  /\ CanStart
  /\ resp' = Success("list_jobs", Undefined,
                     [totalJobs |-> Len(jobs),
                      jobs |-> [k \in DOMAIN jobs |-> JobListEntry(jobs[k])]], 0)
  /\ UNCHANGED <<jobs, batchJobs, nextBatchId, calls, statusLog, now, tasks, dirs, files>>


(***************************************************************************)
(* generate_batch_images                                                   *)
(***************************************************************************)
Item(prompt, aspectRatio, model) ==
  [prompt |-> prompt, aspectRatio |-> aspectRatio, model |-> model]

PlainItem == Item(Some(ShortPrompt), Undefined, Undefined)

BatchArgs(prompts, defaultAspectRatio, defaultModel) ==
  [prompts |-> prompts, defaultAspectRatio |-> defaultAspectRatio,
   defaultModel |-> defaultModel]

\* Arguments of generate_batch_images: n plain items for every n the job
\* bound admits, items with overrides under batch-level defaults, and
\* arguments the schema rejects (no prompts key, an empty array, 21 items,
\* an item with an aspect ratio outside the enumeration).
PlainBatch(n) == BatchArgs(Some([k \in 1..n |-> PlainItem]), Undefined, Undefined)
OverrideBatch ==
  BatchArgs(Some(<<Item(Some(ShortPrompt), Some("9:16"), Undefined),
                   Item(Some(LongPrompt), Undefined, Some("gemini-2.5-flash-image"))>>),
            Some("4:3"), Some("gemini-2.5-flash-image-preview"))
CoreGenerateBatchArgs ==
  {PlainBatch(n) : n \in 0..MaxJobs}
    \cup
  { BatchArgs(Undefined, Undefined, Undefined),
    BatchArgs(Some([k \in 1..(MaxBatchPrompts + 1) |-> PlainItem]), Undefined, Undefined),
    BatchArgs(Some(<<PlainItem, Item(Some(ShortPrompt), Some("2:1"), Undefined)>>),
              Undefined, Undefined),
    BatchArgs(Some(<<PlainItem>>), Some("1:2"), Undefined) }
GenerateBatchArgs == CoreGenerateBatchArgs \cup {OverrideBatch}

\* BatchPromptSchema
BatchPromptSchemaOk(item) ==
  /\ IsSet(item.prompt)
  /\ IsSet(item.aspectRatio) => ValueOf(item.aspectRatio) \in AspectRatios
  /\ IsSet(item.model) => ValueOf(item.model) \in AVAILABLE_MODELS

\* GenerateBatchImagesSchema.parse
GenerateBatchImagesSchemaOk(args) ==
  /\ IsSet(args.prompts)
  /\ Len(ValueOf(args.prompts)) >= MinBatchPrompts
  /\ Len(ValueOf(args.prompts)) <= MaxBatchPrompts
  /\ \A k \in DOMAIN ValueOf(args.prompts) : BatchPromptSchemaOk(ValueOf(args.prompts)[k])
  /\ IsSet(args.defaultAspectRatio) => ValueOf(args.defaultAspectRatio) \in AspectRatios
  /\ IsSet(args.defaultModel) => ValueOf(args.defaultModel) \in AVAILABLE_MODELS

\* Fault: the arguments are validated after the first item was dispatched.
GenerateBatchInvalid_AfterDispatch(args) ==
  /\ CanStart
  /\ ~GenerateBatchImagesSchemaOk(args)
  /\ resp' = Failure("generate_batch_images", args, InvalidArguments, 0)
  /\ IF IsSet(args.prompts) /\ Len(ValueOf(args.prompts)) > 0 /\ Len(jobs) < MaxJobs
     THEN generateImage(ShortPrompt, DefaultAspectRatio, DefaultModel, NoThrow)
     ELSE UNCHANGED <<jobs, calls, statusLog>>
  /\ UNCHANGED <<batchJobs, nextBatchId, now, tasks, dirs, files>>

GenerateBatchInvalid(args) ==
  /\ CanStart
  /\ ~GenerateBatchImagesSchemaOk(args)
  /\ resp' = Failure("generate_batch_images", args, InvalidArguments, 0)
  /\ UNCHANGED <<jobs, batchJobs, nextBatchId, calls, statusLog, now, tasks, dirs, files>>

\* jobs the suspended batch submissions have yet to create
Reserved ==
  LET left(t) == IF tasks[t].pc = "gb_loop" THEN Len(tasks[t].prompts) - tasks[t].i ELSE 0
      RECURSIVE Sum(_)
      Sum(n) == IF n = 0 THEN 0 ELSE left(n) + Sum(n - 1)
  IN Sum(MaxTasks)

\* One iteration of the loop of generateBatchImages up to its await
\* (lines 249-251).
\* Fault: the batch-level setting wins over the item's own.
DispatchItem_BatchLevel(promptConfig, defaultAspectRatio, defaultModel, syncThrow) ==
  generateImage(ValueOf(promptConfig.prompt), defaultAspectRatio, defaultModel, syncThrow)

DispatchItem(promptConfig, defaultAspectRatio, defaultModel, syncThrow) ==
  generateImage(ValueOf(promptConfig.prompt),
                OrDefault(promptConfig.aspectRatio, defaultAspectRatio),
                OrDefault(promptConfig.model, defaultModel), syncThrow)

\* Fault: the ids of all items are allocated and the batch recorded before
\* the loop creates the jobs.
GenerateBatchStart_RecordsFirst(args, syncThrow) ==
  /\ CanStart /\ CanSuspend
  /\ GenerateBatchImagesSchemaOk(args)
  /\ nextBatchId < MaxBatches
  /\ Len(jobs) + Reserved + Len(ValueOf(args.prompts)) <= MaxJobs
  /\ LET prompts == ValueOf(args.prompts)
         defaultAspectRatio == OrDefault(args.defaultAspectRatio, DefaultAspectRatio)
         defaultModel == OrDefault(args.defaultModel, DefaultModel)
     IN /\ nextBatchId' = nextBatchId + 1
        /\ DispatchItem(prompts[1], defaultAspectRatio, defaultModel, syncThrow)
        /\ batchJobs' = Append(batchJobs,
                               [id |-> generateBatchId,
                                jobIds |-> [k \in 1..Len(prompts) |-> Len(jobs) + k],
                                totalCount |-> Len(prompts),
                                createdAt |-> now, completedAt |-> Undefined])
        /\ Suspend([pc |-> "gb_loop", args |-> args,
                    batchId |-> generateBatchId, prompts |-> prompts,
                    defaultAspectRatio |-> defaultAspectRatio,
                    defaultModel |-> defaultModel,
                    i |-> 1, jobIds |-> <<>>, jobId |-> generateJobId])
  /\ UNCHANGED <<now, dirs, files, resp>>

\* The handler up to the first await: parse, generateBatchId, first item.
GenerateBatchStart(args, syncThrow) ==
  /\ CanStart /\ CanSuspend
  /\ GenerateBatchImagesSchemaOk(args)
  /\ nextBatchId < MaxBatches
  /\ Len(jobs) + Reserved + Len(ValueOf(args.prompts)) <= MaxJobs
  /\ LET prompts == ValueOf(args.prompts)
         defaultAspectRatio == OrDefault(args.defaultAspectRatio, DefaultAspectRatio)
         defaultModel == OrDefault(args.defaultModel, DefaultModel)
     IN /\ nextBatchId' = nextBatchId + 1
        /\ DispatchItem(prompts[1], defaultAspectRatio, defaultModel, syncThrow)
        /\ Suspend([pc |-> "gb_loop", args |-> args,
                    batchId |-> generateBatchId, prompts |-> prompts,
                    defaultAspectRatio |-> defaultAspectRatio,
                    defaultModel |-> defaultModel,
                    i |-> 1, jobIds |-> <<>>, jobId |-> generateJobId])
  /\ UNCHANGED <<batchJobs, now, dirs, files, resp>>

\* Resumption after `await generateImage` with items left: push the id,
\* dispatch the next item.
\* Fault: the loop waits for the previous member's call before dispatching.
GenerateBatchNext_Sequential(t, syncThrow) ==
  /\ tasks[t].pc = "gb_loop"
  /\ Idle
  /\ tasks[t].i < Len(tasks[t].prompts)
  /\ \A c \in DOMAIN calls : calls[c].jobId = tasks[t].jobId => calls[c].state = "settled"
  /\ DispatchItem(tasks[t].prompts[tasks[t].i + 1], tasks[t].defaultAspectRatio,
                  tasks[t].defaultModel, syncThrow)
  /\ tasks' = [tasks EXCEPT ![t].i = @ + 1,
                            ![t].jobIds = Append(@, tasks[t].jobId),
                            ![t].jobId = generateJobId]
  /\ UNCHANGED <<batchJobs, nextBatchId, now, dirs, files, resp>>

GenerateBatchNext(t, syncThrow) ==
  /\ tasks[t].pc = "gb_loop"
  /\ Idle
  /\ tasks[t].i < Len(tasks[t].prompts)
  /\ DispatchItem(tasks[t].prompts[tasks[t].i + 1], tasks[t].defaultAspectRatio,
                  tasks[t].defaultModel, syncThrow)
  /\ tasks' = [tasks EXCEPT ![t].i = @ + 1,
                            ![t].jobIds = Append(@, tasks[t].jobId),
                            ![t].jobId = generateJobId]
  /\ UNCHANGED <<batchJobs, nextBatchId, now, dirs, files, resp>>

NewBatch(batchId, jobIds, totalCount) ==
  [id |-> batchId, jobIds |-> jobIds, totalCount |-> totalCount,
   createdAt |-> now, completedAt |-> Undefined]

\* Fault: the last id is put in front of the list (unshift for push).
GenerateBatchFinish_Unshift(t) ==
  /\ tasks[t].pc = "gb_loop"
  /\ Idle
  /\ tasks[t].i = Len(tasks[t].prompts)
  /\ LET jobIds == <<tasks[t].jobId>> \o tasks[t].jobIds
     IN /\ batchJobs' = Append(batchJobs,
                               NewBatch(tasks[t].batchId, jobIds, Len(tasks[t].prompts)))
        /\ resp' = Success("generate_batch_images", tasks[t].args,
                           [batchId |-> tasks[t].batchId, jobIds |-> jobIds,
                            totalImages |-> Len(tasks[t].prompts), status |-> "pending"], 0)
  /\ tasks' = [tasks EXCEPT ![t] = NoTask]
  /\ UNCHANGED <<jobs, nextBatchId, calls, statusLog, now, dirs, files>>

\* Resumption after the last `await generateImage`: push the id, record
\* the batch (lines 256-261), return; the handler answers.
GenerateBatchFinish(t) ==
  /\ tasks[t].pc = "gb_loop"
  /\ Idle
  /\ tasks[t].i = Len(tasks[t].prompts)
  /\ LET jobIds == Append(tasks[t].jobIds, tasks[t].jobId)
     IN /\ batchJobs' = Append(batchJobs,
                               NewBatch(tasks[t].batchId, jobIds, Len(tasks[t].prompts)))
        /\ resp' = Success("generate_batch_images", tasks[t].args,
                           [batchId |-> tasks[t].batchId, jobIds |-> jobIds,
                            totalImages |-> Len(tasks[t].prompts), status |-> "pending"], 0)
  /\ tasks' = [tasks EXCEPT ![t] = NoTask]
  /\ UNCHANGED <<jobs, nextBatchId, calls, statusLog, now, dirs, files>>

(***************************************************************************)
(* Status aggregator: getBatchStatus                                       *)
(***************************************************************************)
\* the tally of lines 290-314 over the job store `js`: a member id that is
\* not in the store is skipped
\* Fault: the tally stops at the first failed member.
CountOf_UntilFailure(batch, js, status) ==
  Cardinality({k \in DOMAIN batch.jobIds :
                 /\ batch.jobIds[k] \in DOMAIN js
                 /\ js[batch.jobIds[k]].status = status
                 /\ \A i \in 1..(k - 1) : js[batch.jobIds[i]].status # "failed"})

CountOf(batch, js, status) ==
  Cardinality({k \in DOMAIN batch.jobIds :
                 /\ batch.jobIds[k] \in DOMAIN js
                 /\ js[batch.jobIds[k]].status = status})

\* Fault: an all-done batch with any failure is reported failed.
AggregateStatus_AnyFailure(totalCount, completedCount, failedCount, pendingCount, processingCount) ==
  LET allDone == completedCount + failedCount = totalCount
  IN IF allDone
     THEN IF failedCount > 0 THEN "failed" ELSE "completed"
     ELSE IF processingCount > 0 \/ completedCount > 0 THEN "processing"
     ELSE "pending"

\* Fault: failures are reported before the outstanding members are done.
AggregateStatus_EarlyFailure(totalCount, completedCount, failedCount, pendingCount, processingCount) ==
  IF failedCount = totalCount THEN "failed"
  ELSE IF failedCount > 0 THEN "partial"
  ELSE IF completedCount = totalCount THEN "completed"
  ELSE IF processingCount > 0 \/ completedCount > 0 THEN "processing"
  ELSE "pending"

\* lines 317-336
AggregateStatus(totalCount, completedCount, failedCount, pendingCount, processingCount) ==
  LET allDone == completedCount + failedCount = totalCount
  IN IF allDone
     THEN IF failedCount = totalCount THEN "failed"
          ELSE IF failedCount > 0 THEN "partial"
          ELSE "completed"
     ELSE IF processingCount > 0 \/ completedCount > 0 THEN "processing"
     ELSE "pending"

AllDone(batch, js) ==
  CountOf(batch, js, "completed") + CountOf(batch, js, "failed") = batch.totalCount

\* Fault: completedAt is written on every aggregation of an all-done batch.
StampBatch_Always(batch, js) ==
  IF AllDone(batch, js) THEN [batch EXCEPT !.completedAt = Some(now)] ELSE batch

\* lines 328-331: the batch record after getBatchStatus
StampBatch(batch, js) ==
  IF AllDone(batch, js) /\ ~IsSet(batch.completedAt)
  THEN [batch EXCEPT !.completedAt = Some(now)]
  ELSE batch

\* Fault: only members that have finished are listed.
JobDetails_FinishedOnly(batch, js) ==
  LET present == SelectSeq(batch.jobIds,
                           LAMBDA j : j \in DOMAIN js /\ js[j].status \in {"completed", "failed"})
  IN [k \in DOMAIN present |->
        [jobId |-> js[present[k]].id, status |-> js[present[k]].status,
         prompt |-> DisplayPrompt(js[present[k]].prompt)]]

JobDetails(batch, js) ==
  LET present == SelectSeq(batch.jobIds, LAMBDA j : j \in DOMAIN js)
  IN [k \in DOMAIN present |->
        [jobId |-> js[present[k]].id, status |-> js[present[k]].status,
         prompt |-> DisplayPrompt(js[present[k]].prompt)]]

\* the value getBatchStatus returns (lines 338-349)
\* Fault: completedAt is read before the stamp.
getBatchStatus_StaleStamp(batch, js) ==
  [batchId |-> batch.id,
   status |-> AggregateStatus(batch.totalCount, CountOf(batch, js, "completed"),
                              CountOf(batch, js, "failed"), CountOf(batch, js, "pending"),
                              CountOf(batch, js, "processing")),
   totalCount |-> batch.totalCount,
   completedCount |-> CountOf(batch, js, "completed"),
   failedCount |-> CountOf(batch, js, "failed"),
   pendingCount |-> CountOf(batch, js, "pending"),
   processingCount |-> CountOf(batch, js, "processing"),
   jobs |-> JobDetails(batch, js),
   createdAt |-> batch.createdAt,
   completedAt |-> batch.completedAt]

getBatchStatus(batch, js) ==
  [batchId |-> batch.id,
   status |-> AggregateStatus(batch.totalCount, CountOf(batch, js, "completed"),
                              CountOf(batch, js, "failed"), CountOf(batch, js, "pending"),
                              CountOf(batch, js, "processing")),
   totalCount |-> batch.totalCount,
   completedCount |-> CountOf(batch, js, "completed"),
   failedCount |-> CountOf(batch, js, "failed"),
   pendingCount |-> CountOf(batch, js, "pending"),
   processingCount |-> CountOf(batch, js, "processing"),
   jobs |-> JobDetails(batch, js),
   createdAt |-> batch.createdAt,
   completedAt |-> StampBatch(batch, js).completedAt]

BatchIdArgs == {Undefined} \cup {Some(b) : b \in 1..(MaxBatches + 1)}

\* check_batch_status: the response carries every field of the result
\* (lines 729-744)
\* Fault: a status query stamps every finished batch, not only its own.
CheckBatchStatus_StampsAll(arg) ==
  /\ CanStart
  /\ IF ~IsSet(arg)
     THEN /\ resp' = Failure("check_batch_status", arg, InvalidArguments, 0)
          /\ UNCHANGED batchJobs
     ELSE IF ~HasBatch(ValueOf(arg))
     THEN /\ resp' = Failure("check_batch_status", arg, BatchNotFound(ValueOf(arg)), 0)
          /\ UNCHANGED batchJobs
     ELSE LET k == BatchIndex(ValueOf(arg))
          IN /\ resp' = Success("check_batch_status", arg,
                                getBatchStatus(batchJobs[k], jobs), 0)
             /\ batchJobs' = [i \in DOMAIN batchJobs |-> StampBatch(batchJobs[i], jobs)]
  /\ UNCHANGED <<jobs, nextBatchId, calls, statusLog, now, tasks, dirs, files>>

CheckBatchStatus(arg) ==
  /\ CanStart
  /\ IF ~IsSet(arg)
     THEN /\ resp' = Failure("check_batch_status", arg, InvalidArguments, 0)
          /\ UNCHANGED batchJobs
     ELSE IF ~HasBatch(ValueOf(arg))
     THEN /\ resp' = Failure("check_batch_status", arg, BatchNotFound(ValueOf(arg)), 0)
          /\ UNCHANGED batchJobs
     ELSE LET k == BatchIndex(ValueOf(arg))
          IN /\ resp' = Success("check_batch_status", arg,
                                getBatchStatus(batchJobs[k], jobs), 0)
             /\ batchJobs' = [batchJobs EXCEPT ![k] = StampBatch(@, jobs)]
  /\ UNCHANGED <<jobs, nextBatchId, calls, statusLog, now, tasks, dirs, files>>

\* list_batches: getBatchStatus on every batch, in insertion order
BatchListEntry(batch, js) ==
  [batchId |-> batch.id, status |-> getBatchStatus(batch, js).status,
   completedCount |-> getBatchStatus(batch, js).completedCount,
   totalCount |-> batch.totalCount, createdAt |-> batch.createdAt,
   completedAt |-> StampBatch(batch, js).completedAt]

ListBatches ==
  /\ CanStart
  /\ resp' = Success("list_batches", Undefined,
                     [totalBatches |-> Len(batchJobs),
                      batches |-> [k \in DOMAIN batchJobs |->
                                     BatchListEntry(batchJobs[k], jobs)]], 0)
  /\ batchJobs' = [k \in DOMAIN batchJobs |-> StampBatch(batchJobs[k], jobs)]
  /\ UNCHANGED <<jobs, nextBatchId, calls, statusLog, now, tasks, dirs, files>>


(***************************************************************************)
(* File system: mkdir(path, {recursive: true}) and writeFile.              *)
(***************************************************************************)
\* What the environment lets an fs call do: succeed or fail.
IOOutcomes == {"ok", "EACCES"}

Prefixes(segs) == {SubSeq(segs, 1, k) : k \in 1..Len(segs)}

\* The error code of mkdir, "ok" if it succeeds: it fails when a prefix of
\* the path is a regular file.
MkdirResult(segs, io) ==
  IF io # "ok" THEN io
  ELSE IF \E q \in Prefixes(segs) : q \in DOMAIN files THEN "ENOTDIR"
  ELSE "ok"

DirsAfterMkdir(segs) == dirs \cup Prefixes(segs)

\* The error code of writeFile, "ok" if it succeeds: the path must not be a
\* directory, its parent must be one, and the volume holds MaxFiles files.
WriteFileResult(segs, io) ==
  IF io # "ok" THEN io
  ELSE IF segs = <<>> \/ segs \in dirs THEN "EISDIR"
  ELSE IF dirname(segs) # <<>> /\ dirname(segs) \notin dirs THEN "ENOENT"
  ELSE IF segs \notin DOMAIN files /\ Cardinality(DOMAIN files) >= MaxFiles THEN "ENOSPC"
  ELSE "ok"

FilesAfterWrite(segs, bytes) ==
  [q \in DOMAIN files \cup {segs} |-> IF q = segs THEN bytes ELSE files[q]]

(***************************************************************************)
(* Result persister: saveImageToFile, save_image                           *)
(***************************************************************************)
Chars8(a, b, c, d, e, f, g, h) == <<a, b, c, d, e, f, g, h>>

PathOA == Chars8("/", "o", "/", "a", ".", "p", "n", "g")

\* filePath arguments: absent; paths whose resolved form ends in .png
\* (absolute, with a trailing slash, relative to the working directory);
\* and paths whose resolved form does not (another extension, upper case,
\* a ".." that drops the file name, the empty string).
CoreFilePathArgs ==
  {Undefined, Some(PathOA), Some(Chars8("/", "o", "/", "a", ".", "j", "p", "g"))}
FilePathArgs ==
  { Undefined,
    Some(PathOA),
    Some(PathOA \o <<"/">>),
    Some(<<"r", ".", "p", "n", "g">>),
    Some(Chars8("/", "o", "/", "a", ".", "j", "p", "g")),
    Some(Chars8("/", "o", "/", "a", ".", "P", "N", "G")),
    Some(PathOA \o <<"/", ".", ".">>),
    Some(<<>>) }

\* The checks of saveImageToFile before its first await (lines 208-226):
\* the error thrown, or Undefined when mkdir is reached.
\* Fault: the extension is validated before the job's status is looked at.
SaveCheck_PathFirst(jobId, filePath) ==
  IF ~HasJob(jobId) THEN Some(JobNotFound(jobId))
  ELSE IF ~EndsWith(PathString(resolve(filePath)), PngExt) THEN Some(MustEndInPng)
  ELSE IF GetJob(jobId).status # "completed"
       THEN Some(JobNotCompleted(jobId, GetJob(jobId).status))
  ELSE IF ~IsSet(GetJob(jobId).result) \/ GetJob(jobId).result = Some(<<>>)
       THEN Some(JobHasNoResult(jobId))
  ELSE Undefined

\* Fault: the status is compared through an optional chain, so a missing
\* job is reported as not completed.
SaveCheck_StatusFirst(jobId, filePath) ==
  IF ~HasJob(jobId) THEN Some(JobNotCompleted(jobId, "undefined"))
  ELSE IF GetJob(jobId).status # "completed"
       THEN Some(JobNotCompleted(jobId, GetJob(jobId).status))
  ELSE IF ~IsSet(GetJob(jobId).result) \/ GetJob(jobId).result = Some(<<>>)
       THEN Some(JobHasNoResult(jobId))
  ELSE IF ~EndsWith(PathString(resolve(filePath)), PngExt) THEN Some(MustEndInPng)
  ELSE Undefined

\* Fault: the extension is tested on the path as given, not as resolved.
SaveCheck_Unresolved(jobId, filePath) ==
  IF ~HasJob(jobId) THEN Some(JobNotFound(jobId))
  ELSE IF GetJob(jobId).status # "completed"
       THEN Some(JobNotCompleted(jobId, GetJob(jobId).status))
  ELSE IF ~IsSet(GetJob(jobId).result) \/ GetJob(jobId).result = Some(<<>>)
       THEN Some(JobHasNoResult(jobId))
  ELSE IF ~EndsWith(filePath, PngExt) THEN Some(MustEndInPng)
  ELSE Undefined

SaveCheck(jobId, filePath) ==
  IF ~HasJob(jobId) THEN Some(JobNotFound(jobId))
  ELSE IF GetJob(jobId).status # "completed"
       THEN Some(JobNotCompleted(jobId, GetJob(jobId).status))
  ELSE IF ~IsSet(GetJob(jobId).result) \/ GetJob(jobId).result = Some(<<>>)
       THEN Some(JobHasNoResult(jobId))
  ELSE IF ~EndsWith(PathString(resolve(filePath)), PngExt) THEN Some(MustEndInPng)
  ELSE Undefined

\* save_image up to the first await: SaveImageSchema.parse, the checks,
\* then mkdir(dirname(absolutePath)) is issued.
SaveImageRequest(jobIdArg, filePathArg) == [jobId |-> jobIdArg, filePath |-> filePathArg]

SaveImage(jobIdArg, filePathArg) ==
  /\ CanStart
  /\ IF ~IsSet(jobIdArg) \/ ~IsSet(filePathArg)
     THEN /\ resp' = Failure("save_image", SaveImageRequest(jobIdArg, filePathArg),
                             InvalidArguments, 0)
          /\ UNCHANGED tasks
     ELSE IF IsSet(SaveCheck(ValueOf(jobIdArg), ValueOf(filePathArg)))
     THEN /\ resp' = Failure("save_image", SaveImageRequest(jobIdArg, filePathArg),
                             ValueOf(SaveCheck(ValueOf(jobIdArg), ValueOf(filePathArg))), 0)
          /\ UNCHANGED tasks
     ELSE /\ CanSuspend
          /\ Suspend([pc |-> "si_mkdir", jobId |-> ValueOf(jobIdArg),
                      filePath |-> ValueOf(filePathArg),
                      absolutePath |-> resolve(ValueOf(filePathArg)), fsCalls |-> 1])
          /\ UNCHANGED resp
  /\ UNCHANGED <<jobs, batchJobs, nextBatchId, calls, statusLog, now, dirs, files>>

\* mkdir settles (line 229); on success the payload is decoded and
\* writeFile issued (lines 232-233).
SaveImageMkdir(t, io) ==
  /\ tasks[t].pc = "si_mkdir"
  /\ Idle
  /\ LET dir == dirname(tasks[t].absolutePath)
         code == MkdirResult(dir, io)
     IN IF code = "ok"
        THEN /\ dirs' = DirsAfterMkdir(dir)
             /\ tasks' = [tasks EXCEPT ![t] =
                            [pc |-> "si_write", jobId |-> tasks[t].jobId,
                             filePath |-> tasks[t].filePath,
                             absolutePath |-> tasks[t].absolutePath,
                             buffer |-> BufferFromBase64(ValueOf(GetJob(tasks[t].jobId).result)),
                             fsCalls |-> tasks[t].fsCalls + 1]]
             /\ UNCHANGED resp
        ELSE /\ resp' = Failure("save_image",
                                SaveImageRequest(Some(tasks[t].jobId), Some(tasks[t].filePath)),
                                IOError(code), tasks[t].fsCalls)
             /\ tasks' = [tasks EXCEPT ![t] = NoTask]
             /\ UNCHANGED dirs
  /\ UNCHANGED <<jobs, batchJobs, nextBatchId, calls, statusLog, now, files>>

\* writeFile settles; the handler answers (lines 647-662).
\* Fault: the stored payload is released once it has been written.
SaveImageWrite_ReleasesResult(t, io) ==
  /\ tasks[t].pc = "si_write"
  /\ Idle
  /\ LET code == WriteFileResult(tasks[t].absolutePath, io)
     IN IF code = "ok"
        THEN /\ files' = FilesAfterWrite(tasks[t].absolutePath, tasks[t].buffer)
             /\ jobs' = [jobs EXCEPT ![tasks[t].jobId].result = Undefined]
             /\ resp' = Success("save_image",
                                SaveImageRequest(Some(tasks[t].jobId), Some(tasks[t].filePath)),
                                [success |-> TRUE, filePath |-> tasks[t].filePath],
                                tasks[t].fsCalls)
        ELSE /\ resp' = Failure("save_image",
                                SaveImageRequest(Some(tasks[t].jobId), Some(tasks[t].filePath)),
                                IOError(code), tasks[t].fsCalls)
             /\ UNCHANGED <<files, jobs>>
  /\ tasks' = [tasks EXCEPT ![t] = NoTask]
  /\ UNCHANGED <<batchJobs, nextBatchId, calls, statusLog, now, dirs>>

SaveImageWrite(t, io) ==
  /\ tasks[t].pc = "si_write"
  /\ Idle
  /\ LET code == WriteFileResult(tasks[t].absolutePath, io)
     IN IF code = "ok"
        THEN /\ files' = FilesAfterWrite(tasks[t].absolutePath, tasks[t].buffer)
             /\ resp' = Success("save_image",
                                SaveImageRequest(Some(tasks[t].jobId), Some(tasks[t].filePath)),
                                [success |-> TRUE, filePath |-> tasks[t].filePath],
                                tasks[t].fsCalls)
        ELSE /\ resp' = Failure("save_image",
                                SaveImageRequest(Some(tasks[t].jobId), Some(tasks[t].filePath)),
                                IOError(code), tasks[t].fsCalls)
             /\ UNCHANGED files
  /\ tasks' = [tasks EXCEPT ![t] = NoTask]
  /\ UNCHANGED <<jobs, batchJobs, nextBatchId, calls, statusLog, now, dirs>>


(***************************************************************************)
(* Result persister: saveBatchImages, save_batch_images                    *)
(***************************************************************************)
DirO == <<"/", "o">>
DefaultFilenamePrefix == <<"i", "m", "a", "g", "e">>

SaveBatchArgsOver(prefixes) ==
  { [batchId |-> b, directory |-> d, filenamePrefix |-> f] :
      b \in BatchIdArgs, d \in {Undefined, Some(DirO)}, f \in prefixes }
CoreSaveBatchArgs == SaveBatchArgsOver({Undefined})
SaveBatchArgs == SaveBatchArgsOver({Undefined, Some(<<"a">>)})

\* Fault: the file name carries the 0-based loop index.
BatchFilePath_ZeroBased(absoluteDir, filenamePrefix, i) ==
  join(absoluteDir, filenamePrefix \o <<"_">> \o NumberToString(i - 1) \o PngExt)

\* `${filenamePrefix}_${i + 1}.png` joined to the directory (line 371),
\* for the 1-based position i
BatchFilePath(absoluteDir, filenamePrefix, i) ==
  join(absoluteDir, filenamePrefix \o <<"_">> \o NumberToString(i) \o PngExt)

SaveBatchTask(pc, T, i, saved, failed, fsCalls, err, buffer) ==
  [pc |-> pc, args |-> T.args, batchId |-> T.batchId, jobIds |-> T.jobIds, directory |-> T.directory,
   absoluteDir |-> T.absoluteDir, filenamePrefix |-> T.filenamePrefix,
   i |-> i, saved |-> saved, failed |-> failed, fsCalls |-> fsCalls,
   err |-> err, buffer |-> buffer]

\* Fault: success means that nothing failed.
SaveBatchBody_NoFailure(T, saved, failed) ==
  [success |-> Len(failed) = 0, directory |-> T.directory,
   savedCount |-> Len(saved), failedCount |-> Len(failed), saved |-> saved,
   failed |-> IF Len(failed) > 0 THEN Some(failed) ELSE Undefined]

\* the answer of save_batch_images (lines 777-795)
SaveBatchBody(T, saved, failed) ==
  [success |-> Len(saved) > 0, directory |-> T.directory,
   savedCount |-> Len(saved), failedCount |-> Len(failed), saved |-> saved,
   failed |-> IF Len(failed) > 0 THEN Some(failed) ELSE Undefined]

\* The loop of saveBatchImages reaches position i (1-based) in slot t with
\* the lists so far: past the end it returns; else saveImageToFile runs up
\* to its first await, either rejecting or issuing mkdir.
SaveBatchEnter(t, T, i, saved, failed, fsCalls) ==
  IF i > Len(T.jobIds)
  THEN /\ resp' = Success("save_batch_images", T.args,
                          SaveBatchBody(T, saved, failed), fsCalls)
       /\ tasks' = [tasks EXCEPT ![t] = NoTask]
  ELSE LET filePath == BatchFilePath(T.absoluteDir, T.filenamePrefix, i)
           check == SaveCheck(T.jobIds[i], PathString(filePath))
       IN /\ tasks' = [tasks EXCEPT ![t] =
                         IF IsSet(check)
                         THEN SaveBatchTask("sb_rejected", T, i, saved, failed, fsCalls,
                                            check, <<>>)
                         ELSE SaveBatchTask("sb_item_mkdir", T, i, saved, failed,
                                            fsCalls + 1, Undefined, <<>>)]
          /\ UNCHANGED resp

\* save_batch_images up to the first await: parse, look the batch up,
\* issue mkdir(absoluteDir) (lines 358-364).
\* Fault: the members to save are selected once, when the call starts.
SaveBatchImages_Snapshot(args) ==
  /\ CanStart
  /\ IF ~IsSet(args.batchId) \/ ~IsSet(args.directory)
     THEN /\ resp' = Failure("save_batch_images", args, InvalidArguments, 0)
          /\ UNCHANGED tasks
     ELSE IF ~HasBatch(ValueOf(args.batchId))
     THEN /\ resp' = Failure("save_batch_images", args,
                             BatchNotFound(ValueOf(args.batchId)), 0)
          /\ UNCHANGED tasks
     ELSE /\ CanSuspend
          /\ Suspend(SaveBatchTask("sb_mkdir",
                        [args |-> args, batchId |-> ValueOf(args.batchId),
                         jobIds |-> SelectSeq(GetBatch(ValueOf(args.batchId)).jobIds,
                                              LAMBDA j : jobs[j].status = "completed"),
                         directory |-> ValueOf(args.directory),
                         absoluteDir |-> resolve(ValueOf(args.directory)),
                         filenamePrefix |-> OrDefault(args.filenamePrefix,
                                                      DefaultFilenamePrefix)],
                        0, <<>>, <<>>, 1, Undefined, <<>>))
          /\ UNCHANGED resp
  /\ UNCHANGED <<jobs, batchJobs, nextBatchId, calls, statusLog, now, dirs, files>>

SaveBatchImages(args) ==
  /\ CanStart
  /\ IF ~IsSet(args.batchId) \/ ~IsSet(args.directory)
     THEN /\ resp' = Failure("save_batch_images", args, InvalidArguments, 0)
          /\ UNCHANGED tasks
     ELSE IF ~HasBatch(ValueOf(args.batchId))
     THEN /\ resp' = Failure("save_batch_images", args,
                             BatchNotFound(ValueOf(args.batchId)), 0)
          /\ UNCHANGED tasks
     ELSE /\ CanSuspend
          /\ Suspend(SaveBatchTask("sb_mkdir",
                        [args |-> args, batchId |-> ValueOf(args.batchId),
                         jobIds |-> GetBatch(ValueOf(args.batchId)).jobIds,
                         directory |-> ValueOf(args.directory),
                         absoluteDir |-> resolve(ValueOf(args.directory)),
                         filenamePrefix |-> OrDefault(args.filenamePrefix,
                                                      DefaultFilenamePrefix)],
                        0, <<>>, <<>>, 1, Undefined, <<>>))
          /\ UNCHANGED resp
  /\ UNCHANGED <<jobs, batchJobs, nextBatchId, calls, statusLog, now, dirs, files>>

\* mkdir(absoluteDir) settles: a failure leaves saveBatchImages; on success
\* the loop starts.
SaveBatchMkdir(t, io) ==
  /\ tasks[t].pc = "sb_mkdir"
  /\ Idle
  /\ LET code == MkdirResult(tasks[t].absoluteDir, io)
     IN IF code = "ok"
        THEN /\ dirs' = DirsAfterMkdir(tasks[t].absoluteDir)
             /\ SaveBatchEnter(t, tasks[t], 1, <<>>, <<>>, tasks[t].fsCalls)
        ELSE /\ resp' = Failure("save_batch_images", tasks[t].args, IOError(code),
                                tasks[t].fsCalls)
             /\ tasks' = [tasks EXCEPT ![t] = NoTask]
             /\ UNCHANGED dirs
  /\ UNCHANGED <<jobs, batchJobs, nextBatchId, calls, statusLog, now, files>>

\* Fault: the catch block leaves the loop after recording the failure.
SaveBatchRejected_Abort(t) ==
  /\ tasks[t].pc = "sb_rejected"
  /\ Idle
  /\ SaveBatchEnter(t, tasks[t], Len(tasks[t].jobIds) + 1, tasks[t].saved,
                    Append(tasks[t].failed,
                           [jobId |-> tasks[t].jobIds[tasks[t].i],
                            error |-> ValueOf(tasks[t].err)]),
                    tasks[t].fsCalls)
  /\ UNCHANGED <<jobs, batchJobs, nextBatchId, calls, statusLog, now, dirs, files>>

\* The rejected saveImageToFile of position i is caught (lines 376-381).
SaveBatchRejected(t) ==
  /\ tasks[t].pc = "sb_rejected"
  /\ Idle
  /\ SaveBatchEnter(t, tasks[t], tasks[t].i + 1, tasks[t].saved,
                    Append(tasks[t].failed,
                           [jobId |-> tasks[t].jobIds[tasks[t].i],
                            error |-> ValueOf(tasks[t].err)]),
                    tasks[t].fsCalls)
  /\ UNCHANGED <<jobs, batchJobs, nextBatchId, calls, statusLog, now, dirs, files>>

\* The mkdir of position i settles: on failure the item is caught as
\* failed, on success the payload is decoded and writeFile issued.
SaveBatchItemMkdir(t, io) ==
  /\ tasks[t].pc = "sb_item_mkdir"
  /\ Idle
  /\ LET T == tasks[t]
         dir == dirname(BatchFilePath(T.absoluteDir, T.filenamePrefix, T.i))
         code == MkdirResult(dir, io)
     IN IF code = "ok"
        THEN /\ dirs' = DirsAfterMkdir(dir)
             /\ tasks' = [tasks EXCEPT ![t] =
                            SaveBatchTask("sb_item_write", T, T.i, T.saved, T.failed,
                                          T.fsCalls + 1, Undefined,
                                          BufferFromBase64(ValueOf(GetJob(T.jobIds[T.i]).result)))]
             /\ UNCHANGED resp
        ELSE /\ SaveBatchEnter(t, T, T.i + 1, T.saved,
                               Append(T.failed, [jobId |-> T.jobIds[T.i],
                                                 error |-> IOError(code)]),
                               T.fsCalls)
             /\ UNCHANGED dirs
  /\ UNCHANGED <<jobs, batchJobs, nextBatchId, calls, statusLog, now, files>>

\* The writeFile of position i settles: saved.push or failed.push, then
\* the next position.
SaveBatchItemWrite(t, io) ==
  /\ tasks[t].pc = "sb_item_write"
  /\ Idle
  /\ LET T == tasks[t]
         filePath == BatchFilePath(T.absoluteDir, T.filenamePrefix, T.i)
         code == WriteFileResult(filePath, io)
     IN IF code = "ok"
        THEN /\ files' = FilesAfterWrite(filePath, T.buffer)
             /\ SaveBatchEnter(t, T, T.i + 1,
                               Append(T.saved, [jobId |-> T.jobIds[T.i],
                                                filePath |-> PathString(filePath)]),
                               T.failed, T.fsCalls)
        ELSE /\ SaveBatchEnter(t, T, T.i + 1, T.saved,
                               Append(T.failed, [jobId |-> T.jobIds[T.i],
                                                 error |-> IOError(code)]),
                               T.fsCalls)
             /\ UNCHANGED files
  /\ UNCHANGED <<jobs, batchJobs, nextBatchId, calls, statusLog, now, dirs>>

(***************************************************************************)
(* Any other tool name                                                     *)
(***************************************************************************)
UnknownToolCall ==
  /\ CanStart
  /\ resp' = Failure("delete_job", Undefined, UnknownTool("delete_job"), 0)
  /\ UNCHANGED <<jobs, batchJobs, nextBatchId, calls, statusLog, now, tasks, dirs, files>>

(***************************************************************************)
(* Specification                                                           *)
(***************************************************************************)
\* The events of the environment: time passes, a response is written out,
\* an awaited generation call settles.
Environment(outcomes) ==
  \/ Tick
  \/ Respond
  \/ \E c \in DOMAIN calls, outcome \in outcomes : SettleCall(c, outcome)

\* Submissions.
Submit(imageArgs, batchArgs) ==
  \/ \E args \in imageArgs : GenerateImageInvalid(args)
  \/ \E args \in imageArgs, syncThrow \in SyncOutcomes : GenerateImage(args, syncThrow)
  \/ \E args \in batchArgs : GenerateBatchInvalid(args)
  \/ \E args \in batchArgs, syncThrow \in SyncOutcomes : GenerateBatchStart(args, syncThrow)
  \/ \E t \in TaskIds, syncThrow \in SyncOutcomes : GenerateBatchNext(t, syncThrow)
  \/ \E t \in TaskIds : GenerateBatchFinish(t)

\* Status queries.
Query ==
  \/ \E arg \in JobIdArgs : CheckJobStatus(arg)
  \/ ListJobs
  \/ \E arg \in BatchIdArgs : CheckBatchStatus(arg)
  \/ ListBatches
  \/ UnknownToolCall

\* Saves.
Save(filePathArgs, batchArgs) ==
  \/ \E j \in JobIdArgs, f \in filePathArgs : SaveImage(j, f)
  \/ \E t \in TaskIds, io \in IOOutcomes : SaveImageMkdir(t, io)
  \/ \E t \in TaskIds, io \in IOOutcomes : SaveImageWrite(t, io)
  \/ \E args \in batchArgs : SaveBatchImages(args)
  \/ \E t \in TaskIds, io \in IOOutcomes : SaveBatchMkdir(t, io)
  \/ \E t \in TaskIds : SaveBatchRejected(t)
  \/ \E t \in TaskIds, io \in IOOutcomes : SaveBatchItemMkdir(t, io)
  \/ \E t \in TaskIds, io \in IOOutcomes : SaveBatchItemWrite(t, io)

\* The whole server.
Next ==
  \/ Environment(CoreOutcomes)
  \/ Submit(CoreGenerateImageArgs, CoreGenerateBatchArgs)
  \/ Query
  \/ Save(CoreFilePathArgs, CoreSaveBatchArgs)

Spec == Init /\ [][Next]_vars


(***************************************************************************)
(* Narrower specifications: the same server with some of the tools idle.   *)
(***************************************************************************)
\* Submissions and status queries, with the clock; nothing is saved.
NextQuery ==
  \/ Environment(CoreOutcomes)
  \/ Submit(CoreGenerateImageArgs, CoreGenerateBatchArgs)
  \/ Query

SpecQuery == Init /\ [][NextQuery]_vars

\* Submissions and saves within one clock instant, with both payloads,
\* every file path and both filename prefixes.
NextSave ==
  \/ Respond
  \/ \E c \in DOMAIN calls, outcome \in PayloadOutcomes \cup {Rejected(e) : e \in CoreThrown} :
       SettleCall(c, outcome)
  \/ Submit(CoreGenerateImageArgs, CoreGenerateBatchArgs)
  \/ Save(FilePathArgs, SaveBatchArgs)

SpecSave == Init /\ [][NextSave]_vars

\* Batch submissions with every argument vector (items with their own
\* prompt, aspect ratio and model), single submissions and batch queries.
NextBatch ==
  \/ Environment(CoreOutcomes)
  \/ Submit(CoreGenerateImageArgs, GenerateBatchArgs)
  \/ \E arg \in BatchIdArgs : CheckBatchStatus(arg)
  \/ ListBatches

SpecBatch == Init /\ [][NextBatch]_vars

\* Single jobs with every argument vector and every outcome of the
\* generation call.
NextDispatch ==
  \/ Environment(Outcomes)
  \/ \E args \in GenerateImageArgs : GenerateImageInvalid(args)
  \/ \E args \in GenerateImageArgs, syncThrow \in SyncOutcomes : GenerateImage(args, syncThrow)
  \/ \E arg \in JobIdArgs : CheckJobStatus(arg)
  \/ ListJobs

SpecDispatch == Init /\ [][NextDispatch]_vars

(***************************************************************************)
(* The aggregator on every combination of member statuses: one batch of n  *)
(* members, n up to MaxMembers, each member in any status of ImageJob.     *)
(***************************************************************************)
JobInStatus(j, status) ==
  [id |-> j, status |-> status, prompt |-> ShortPrompt,
   result |-> IF status = "completed" THEN Some(PayloadABC) ELSE Undefined,
   error |-> IF status = "failed" THEN Some(NoImageDataMessage) ELSE Undefined,
   createdAt |-> 0,
   completedAt |-> IF status \in Terminal THEN Some(0) ELSE Undefined]

LogOfStatus(status) ==
  IF status = "pending" THEN <<"pending">>
  ELSE IF status = "processing" THEN <<"pending", "processing">>
  ELSE <<"pending", "processing", status>>

InitAggregate ==
  \E n \in 1..MaxMembers :
    \E st \in [1..n -> Statuses] :
      /\ now = 0
      /\ jobs = [j \in 1..n |-> JobInStatus(j, st[j])]
      /\ statusLog = [j \in 1..n |-> LogOfStatus(st[j])]
      /\ calls = <<>>
      /\ batchJobs = <<NewBatch(1, [j \in 1..n |-> j], n)>>
      /\ nextBatchId = 1
      /\ tasks = [t \in TaskIds |-> NoTask]
      /\ dirs = {Cwd}
      /\ files = [p \in {} |-> <<>>]
      /\ resp = NoResp

NextAggregate ==
  \/ Tick
  \/ Respond
  \/ \E arg \in BatchIdArgs : CheckBatchStatus(arg)
  \/ ListBatches

SpecAggregate == InitAggregate /\ [][NextAggregate]_vars

\* Single and batch submissions with status queries, where every answer is
\* eventually written and every generation call eventually settles: the
\* event loop runs the continuation of a settled promise once the running
\* handler has returned.
NextLive ==
  \/ NextBatch
  \/ \E arg \in JobIdArgs : CheckJobStatus(arg)

CallSettles(c) == \E outcome \in CoreOutcomes : c \in DOMAIN calls /\ SettleCall(c, outcome)

SpecLive ==
  /\ Init
  /\ [][NextLive]_vars
  /\ WF_vars(Respond)
  /\ \A c \in 1..MaxJobs : SF_vars(CallSettles(c))

(***************************************************************************)
(* save_batch_images on one batch of n members, n up to MaxMembers, whose  *)
(* members are processing, completed or failed when the first save is      *)
(* requested; the outstanding generation calls settle while saves run.     *)
(***************************************************************************)
VisibleStatuses == {"processing", "completed", "failed"}

CallOf(j, status) ==
  [jobId |-> j, model |-> DefaultModel, contents |-> <<ShortPrompt>>,
   aspectRatio |-> DefaultAspectRatio,
   state |-> IF status = "processing" THEN "inflight" ELSE "settled"]

InitSaveBatch ==
  \E n \in 1..MaxMembers :
    \E st \in [1..n -> VisibleStatuses] :
      /\ now = 0
      /\ jobs = [j \in 1..n |-> JobInStatus(j, st[j])]
      /\ statusLog = [j \in 1..n |-> LogOfStatus(st[j])]
      /\ calls = [j \in 1..n |-> CallOf(j, st[j])]
      /\ batchJobs = <<NewBatch(1, [j \in 1..n |-> j], n)>>
      /\ nextBatchId = 1
      /\ tasks = [t \in TaskIds |-> NoTask]
      /\ dirs = {Cwd}
      /\ files = [p \in {} |-> <<>>]
      /\ resp = NoResp

NextSaveBatch ==
  \/ Respond
  \/ \E c \in DOMAIN calls, outcome \in PayloadOutcomes \cup {Rejected(e) : e \in CoreThrown} :
       SettleCall(c, outcome)
  \/ \E args \in SaveBatchArgs : SaveBatchImages(args)
  \/ \E t \in TaskIds, io \in IOOutcomes : SaveBatchMkdir(t, io)
  \/ \E t \in TaskIds : SaveBatchRejected(t)
  \/ \E t \in TaskIds, io \in IOOutcomes : SaveBatchItemMkdir(t, io)
  \/ \E t \in TaskIds, io \in IOOutcomes : SaveBatchItemWrite(t, io)

SpecSaveBatch == InitSaveBatch /\ [][NextSaveBatch]_vars

(***************************************************************************)
(* Properties                                                              *)
(***************************************************************************)
Last(s) == s[Len(s)]

LegalEdges ==
  {<<"pending", "processing">>, <<"processing", "completed">>,
   <<"processing", "failed">>}

\* C1: the status of every job changes only along pending -> processing,
\* processing -> completed and processing -> failed: the successive values
\* of its status field start at pending, every change is one of these
\* edges, and no value occurs twice.
C1_StatusEdges ==
  \A j \in JobIds :
    LET log == statusLog[j]
    IN /\ log # <<>>
       /\ log[1] = "pending"
       /\ Last(log) = jobs[j].status
       /\ \A k \in 1..(Len(log) - 1) : <<log[k], log[k + 1]>> \in LegalEdges
       /\ \A k, m \in DOMAIN log : log[k] = log[m] => k = m

\* two jobs, one that went pending -> processing -> completed and one that
\* went pending -> processing -> failed
C1_Witness ==
  \E j, k \in JobIds :
    /\ statusLog[j] = <<"pending", "processing", "completed">>
    /\ statusLog[k] = <<"pending", "processing", "failed">>

\* C2: in every state a tool call can run in (every state between two
\* synchronous segments), a completed job has its result and a failed job
\* has its error.
C2_TerminalHasPayload ==
  \A j \in JobIds :
    /\ jobs[j].status = "completed" => IsSet(jobs[j].result)
    /\ jobs[j].status = "failed" => IsSet(jobs[j].error)
    /\ (resp.tool = "check_job_status" /\ ~resp.isError /\ resp.body.status = "failed")
         => IsSet(resp.body.error)
    /\ (resp.tool \in {"save_image", "save_batch_images"} /\ resp.isError)
         => resp.error.message # "Job has no result data"

\* a status query answered "completed" while another job is failed
C2_Witness ==
  /\ resp.tool = "check_job_status"
  /\ ~resp.isError
  /\ resp.body.status = "completed"
  /\ \E k \in JobIds : jobs[k].status = "failed"

\* C3: for every job, result is present iff the status is completed, error
\* is present iff the status is failed, they are never both present, and
\* completedAt is present iff the status is completed or failed.
C3_FieldsMatchStatus ==
  \A j \in JobIds :
    /\ IsSet(jobs[j].result) <=> jobs[j].status = "completed"
    /\ IsSet(jobs[j].error) <=> jobs[j].status = "failed"
    /\ ~(IsSet(jobs[j].result) /\ IsSet(jobs[j].error))
    /\ IsSet(jobs[j].completedAt) <=> jobs[j].status \in Terminal

\* a completed, a failed and (of an unfinished batch) a processing job
C3_Witness ==
  /\ \E j, k \in JobIds :
       /\ jobs[j].status = "completed" /\ jobs[j].completedAt = Some(1)
       /\ jobs[k].status = "processing"
  /\ now = 1

\* C4: once a job is completed or failed, no step changes any field of its
\* record.
C4_TerminalFrozen ==
  [][\A j \in JobIds : jobs[j].status \in Terminal => jobs'[j] = jobs[j]]_vars

\* a completed job has been saved to a file after the clock advanced
C4_Witness ==
  /\ resp.tool = "save_image"
  /\ ~resp.isError
  /\ now > ValueOf(jobs[ValueOf(resp.request.jobId)].completedAt)


\* The statuses of the members of a batch, in batch order, and the number
\* of members whose status is in a set.
MemberStatuses(batch) == [k \in DOMAIN batch.jobIds |-> jobs[batch.jobIds[k]].status]
NumIn(st, S) == Cardinality({k \in DOMAIN st : st[k] \in S})

\* the precedence table of the batch status, on a sequence of member statuses
PrecedenceTable(st) ==
  LET done == NumIn(st, {"completed"}) + NumIn(st, {"failed"}) = Len(st)
  IN CASE done /\ NumIn(st, {"failed"}) = Len(st) -> "failed"
       [] done /\ NumIn(st, {"failed"}) > 0 /\ NumIn(st, {"failed"}) < Len(st) -> "partial"
       [] done /\ NumIn(st, {"failed"}) = 0 -> "completed"
       [] ~done /\ NumIn(st, {"processing", "completed"}) > 0 -> "processing"
       [] ~done /\ NumIn(st, {"processing", "completed"}) = 0 -> "pending"

\* The batch statuses an answer reports: pairs <<batch id, status>>.
ReportedStatuses ==
  IF resp.tool = "check_batch_status" /\ ~resp.isError
  THEN {<<resp.body.batchId, resp.body.status>>}
  ELSE IF resp.tool = "list_batches" /\ ~resp.isError
  THEN {<<resp.body.batches[k].batchId, resp.body.batches[k].status>> :
          k \in DOMAIN resp.body.batches}
  ELSE {}

\* C5: for every combination of member statuses, the status that
\* check_batch_status and list_batches report for a batch is the one the
\* precedence table gives for the statuses of its members, whatever the
\* clock and the batch's own completedAt are.
C5_PrecedenceTable ==
  \A r \in ReportedStatuses :
    r[2] = PrecedenceTable(MemberStatuses(GetBatch(r[1])))

\* {processing, completed, pending} is reported processing
C5_Witness ==
  /\ resp.tool = "check_batch_status"
  /\ ~resp.isError
  /\ MemberStatuses(GetBatch(resp.body.batchId)) = <<"processing", "completed", "pending">>
  /\ resp.body.status = "processing"

\* C6: the reported batch status is completed, partial or failed iff every
\* member is completed or failed; while a member is pending or processing
\* it is processing or pending, however many members have failed.
C6_DoneIffAllTerminal ==
  \A r \in ReportedStatuses :
    LET st == MemberStatuses(GetBatch(r[1]))
    IN /\ r[2] \in {"completed", "partial", "failed"} <=> \A k \in DOMAIN st : st[k] \in Terminal
       /\ (\E k \in DOMAIN st : st[k] \in {"pending", "processing"})
            => r[2] \in {"processing", "pending"}

\* two members failed and the third still processing: reported processing
C6_Witness ==
  /\ resp.tool = "list_batches"
  /\ \E r \in ReportedStatuses :
       /\ MemberStatuses(GetBatch(r[1])) = <<"failed", "failed", "processing">>
       /\ r[2] = "processing"

AllMembersTerminal(batch) ==
  \A k \in DOMAIN batch.jobIds : jobs[batch.jobIds[k]].status \in Terminal

\* answers of this step that aggregate batch `batch`
Aggregates(batch) ==
  /\ resp' # resp
  /\ resp'.tool \in {"list_batches", "check_batch_status"}
  /\ ~resp'.isError
  /\ resp'.tool = "check_batch_status" => resp'.body.batchId = batch.id

\* C7: a batch's completedAt is set at most once: a set value never
\* changes; it becomes set only in a check_batch_status or list_batches
\* step that aggregates the batch with all members terminal, and every
\* such step leaves it set; a batch is recorded with completedAt unset.
C7_StampedOnce ==
  [][/\ \A k \in DOMAIN batchJobs :
          LET old == batchJobs[k].completedAt
              new == batchJobs'[k].completedAt
          IN /\ IsSet(old) => new = old
             /\ (~IsSet(old) /\ IsSet(new))
                  => Aggregates(batchJobs[k]) /\ AllMembersTerminal(batchJobs[k])
                       /\ new = Some(now)
             /\ (Aggregates(batchJobs[k]) /\ AllMembersTerminal(batchJobs[k]))
                  => IsSet(new)
     /\ \A k \in DOMAIN batchJobs' \ DOMAIN batchJobs : ~IsSet(batchJobs'[k].completedAt)
    ]_vars

\* a batch stamped at instant 0 is aggregated again at instant 1
C7_Witness ==
  /\ resp.tool = "list_batches"
  /\ now = 1
  /\ \E k \in DOMAIN batchJobs : batchJobs[k].completedAt = Some(0)
  /\ resp.body.batches[1].completedAt = Some(0)


\* This step answers a save_image call that carried a job id and a path.
AnswersSaveImage ==
  /\ resp' # resp
  /\ resp'.tool = "save_image"
  /\ IsSet(resp'.request.jobId)
  /\ IsSet(resp'.request.filePath)

\* This step touches neither the file system nor a suspended handler.
NoFsEffect == resp'.fsCalls = 0 /\ dirs' = dirs /\ files' = files /\ tasks' = tasks

\* C8: save_image on an existing job that is pending, processing or failed
\* is answered with the not-completed error naming the job and its status,
\* whatever the path, and no mkdir or writeFile is issued: the file system
\* is unchanged and no save of the job is left suspended.
C8_NotCompletedRejected ==
  [][/\ AnswersSaveImage
          => LET id == ValueOf(resp'.request.jobId)
             IN (HasJob(id) /\ jobs[id].status \in {"pending", "processing", "failed"})
                  => /\ resp'.isError
                     /\ resp'.error.message = "Job is not completed"
                     /\ resp'.error.id = id
                     /\ resp'.error.detail = jobs[id].status
                     /\ NoFsEffect
     /\ \A t \in TaskIds :
          tasks'[t].pc \in {"si_mkdir", "si_write"}
            => jobs'[tasks'[t].jobId].status = "completed"
    ]_vars

\* a failed job and a well-formed .png path: rejected, nothing created
C8_Witness ==
  /\ resp.tool = "save_image"
  /\ resp.request.filePath = Some(PathOA)
  /\ IsSet(resp.request.jobId)
  /\ HasJob(ValueOf(resp.request.jobId))
  /\ jobs[ValueOf(resp.request.jobId)].status = "failed"
  /\ resp.isError
  /\ dirs = {Cwd}

\* C9: a call naming an id that is in no store is answered with the
\* not-found error for that id: save_image and check_job_status for a job
\* id, check_batch_status and save_batch_images for a batch id; the two
\* save calls issue no mkdir or writeFile.
C9_UnknownIdNotFound ==
  [][resp' # resp
       => /\ (AnswersSaveImage /\ ~HasJob(ValueOf(resp'.request.jobId)))
               => /\ resp'.isError
                  /\ resp'.error.message = "Job not found"
                  /\ resp'.error.id = ValueOf(resp'.request.jobId)
                  /\ NoFsEffect
          /\ (resp'.tool = "check_job_status" /\ IsSet(resp'.request)
                /\ ~HasJob(ValueOf(resp'.request)))
               => /\ resp'.isError
                  /\ resp'.error.message = "Job not found"
                  /\ resp'.error.id = ValueOf(resp'.request)
          /\ (resp'.tool = "check_batch_status" /\ IsSet(resp'.request)
                /\ ~HasBatch(ValueOf(resp'.request)))
               => /\ resp'.isError
                  /\ resp'.error.message = "Batch not found"
                  /\ resp'.error.id = ValueOf(resp'.request)
          /\ (resp'.tool = "save_batch_images" /\ IsSet(resp'.request.batchId)
                /\ IsSet(resp'.request.directory)
                /\ ~HasBatch(ValueOf(resp'.request.batchId)))
               => /\ resp'.isError
                  /\ resp'.error.message = "Batch not found"
                  /\ resp'.error.id = ValueOf(resp'.request.batchId)
                  /\ NoFsEffect
    ]_vars

\* save_image for an unknown job id while a completed job exists
C9_Witness ==
  /\ resp.tool = "save_image"
  /\ resp.isError
  /\ resp.error.message = "Job not found"
  /\ resp.request.filePath = Some(PathOA)
  /\ \E j \in JobIds : jobs[j].status = "completed"
  /\ dirs = {Cwd}

\* C10: save_image on a completed job.  If the resolved path does not end
\* in .png the answer is the validation error and no mkdir or writeFile is
\* issued.  If it does, the validation error is never given: mkdir of the
\* parent is issued, the only failures are those of the file system calls,
\* and a successful answer means both calls were made, the parent
\* directory exists and the file holds the decoded payload.
C10_PngPathRule ==
  [][AnswersSaveImage
       => LET id == ValueOf(resp'.request.jobId)
              abs == resolve(ValueOf(resp'.request.filePath))
          IN (HasJob(id) /\ jobs[id].status = "completed")
               => IF ~EndsWith(PathString(abs), PngExt)
                  THEN /\ resp'.isError
                       /\ resp'.error.message = "File path must end in .png"
                       /\ NoFsEffect
                  ELSE /\ resp'.fsCalls >= 1
                       /\ resp'.isError
                            => resp'.error.message = "fs error" /\ files' = files
                       /\ ~resp'.isError
                            => /\ resp'.fsCalls = 2
                               /\ dirname(abs) \in dirs'
                               /\ abs \in DOMAIN files'
                               /\ files'[abs] = BufferFromBase64(ValueOf(jobs[id].result))
                               /\ \A p \in DOMAIN files : p # abs => files'[p] = files[p]
    ]_vars

\* "/o/a.png/" has been saved as /o/a.png, holding the bytes "hi", and now
\* "/o/a.png/.." is rejected
C10_Witness ==
  /\ resp.tool = "save_image"
  /\ resp.isError
  /\ resp.error.message = "File path must end in .png"
  /\ resp.request.filePath = Some(PathOA \o <<"/", ".", ".">>)
  /\ resolve(PathOA \o <<"/">>) \in DOMAIN files
  /\ files[resolve(PathOA \o <<"/">>)] = <<104, 105>>


\* The answer of a save_batch_images call that ran to its end: the batch
\* it names and its two lists.
SaveBatchAnswered == resp.tool = "save_batch_images" /\ ~resp.isError
AnsweredBatch == GetBatch(ValueOf(resp.request.batchId))
SavedList == resp.body.saved
FailedList == IF IsSet(resp.body.failed) THEN ValueOf(resp.body.failed) ELSE <<>>
Occurrences(list, j) == Cardinality({k \in DOMAIN list : list[k].jobId = j})
PositionOf(batch, j) == CHOOSE k \in DOMAIN batch.jobIds : batch.jobIds[k] = j
\* C11: when saveBatchImages returns, every position of batch.jobIds is in
\* exactly one of saved / failed, once, so |saved| + |failed| = totalCount
\* and the reported counts are the lengths of the lists: no member's
\* failure (not completed, or a file system error) ends the loop.
C11_EveryMemberAccounted ==
  SaveBatchAnswered
    => /\ Len(SavedList) + Len(FailedList) = AnsweredBatch.totalCount
       /\ \A k \in DOMAIN AnsweredBatch.jobIds :
            Occurrences(SavedList, AnsweredBatch.jobIds[k])
              + Occurrences(FailedList, AnsweredBatch.jobIds[k]) = 1
       /\ \A k \in DOMAIN SavedList : SavedList[k].jobId \in Range(AnsweredBatch.jobIds)
       /\ \A k \in DOMAIN FailedList : FailedList[k].jobId \in Range(AnsweredBatch.jobIds)
       /\ resp.body.savedCount = Len(SavedList)
       /\ resp.body.failedCount = Len(FailedList)

\* member 1 not completed, member 2 stopped by the file system, member 3
\* saved
C11_Witness ==
  /\ SaveBatchAnswered
  /\ Len(AnsweredBatch.jobIds) = 3
  /\ Len(FailedList) = 2
  /\ FailedList[1].jobId = AnsweredBatch.jobIds[1]
  /\ FailedList[1].error.message = "Job is not completed"
  /\ FailedList[2].jobId = AnsweredBatch.jobIds[2]
  /\ FailedList[2].error.message = "fs error"
  /\ Len(SavedList) = 1
  /\ SavedList[1].jobId = AnsweredBatch.jobIds[3]

\* C12: the success flag of save_batch_images is true iff at least one
\* member was saved; it is false when no member of the batch is
\* completed, and when it is false every member failed for not being
\* completed or for a file system error.
C12_SuccessIffSaved ==
  SaveBatchAnswered
    => /\ resp.body.success <=> Len(SavedList) >= 1
       /\ (\A k \in DOMAIN AnsweredBatch.jobIds :
             jobs[AnsweredBatch.jobIds[k]].status # "completed")
            => ~resp.body.success
       /\ ~resp.body.success
            => \A k \in DOMAIN FailedList :
                 FailedList[k].error.message \in {"Job is not completed", "fs error"}
       /\ \A k \in DOMAIN SavedList : jobs[SavedList[k].jobId].status = "completed"

\* one completed member saved, one member failed and one still processing
C12_Witness ==
  /\ SaveBatchAnswered
  /\ resp.body.success
  /\ MemberStatuses(AnsweredBatch) = <<"failed", "completed", "processing">>
  /\ Len(SavedList) = 1
  /\ Len(FailedList) = 2

\* the file name of 1-based position k under a prefix (k below 10)
ExpectedName(prefix, k) ==
  prefix \o <<"_", <<"1", "2", "3", "4", "5", "6", "7", "8", "9">>[k]>>
         \o <<".", "p", "n", "g">>
AnsweredPrefix ==
  IF IsSet(resp.request.filenamePrefix) THEN ValueOf(resp.request.filenamePrefix)
  ELSE <<"i", "m", "a", "g", "e">>
AnsweredDir == resolve(ValueOf(resp.request.directory))

\* C13: the file reported for a saved member is <directory>/<prefix>_<k>.png
\* with k the member's 1-based position in batch.jobIds, whatever happened
\* to the members before it, and that file holds the member's decoded
\* payload.
C13_IndexIsPosition ==
  SaveBatchAnswered
    => \A e \in Range(SavedList) :
         LET name == ExpectedName(AnsweredPrefix, PositionOf(AnsweredBatch, e.jobId))
         IN /\ e.filePath = PathString(AnsweredDir) \o <<"/">> \o name
            /\ Append(AnsweredDir, name) \in DOMAIN files
            /\ files[Append(AnsweredDir, name)]
                 = BufferFromBase64(ValueOf(jobs[e.jobId].result))

\* member 1 failed, members 2 and 3 saved as a_2.png and a_3.png
C13_Witness ==
  /\ SaveBatchAnswered
  /\ resp.request.filenamePrefix = Some(<<"a">>)
  /\ Len(AnsweredBatch.jobIds) = 3
  /\ Len(FailedList) = 1
  /\ FailedList[1].jobId = AnsweredBatch.jobIds[1]
  /\ Len(SavedList) = 2
  /\ SavedList[1].filePath = <<"/", "o", "/", "a", "_", "2", ".", "p", "n", "g">>
  /\ SavedList[2].filePath = <<"/", "o", "/", "a", "_", "3", ".", "p", "n", "g">>


\* C14: a generate_batch_images call whose prompts array has 0 or more
\* than 20 items is answered with the validation error, in a step that
\* changes neither store and issues no generation call; no batch
\* submission ever runs with such an array.
C14_BatchSizeRejected ==
  [][/\ (resp' # resp /\ resp'.tool = "generate_batch_images"
           /\ IsSet(resp'.request.prompts)
           /\ (Len(ValueOf(resp'.request.prompts)) = 0
                 \/ Len(ValueOf(resp'.request.prompts)) > 20))
          => /\ resp'.isError
             /\ resp'.error.message = "Invalid arguments"
             /\ jobs' = jobs
             /\ batchJobs' = batchJobs
             /\ calls' = calls
             /\ nextBatchId' = nextBatchId
             /\ tasks' = tasks
     /\ \A t \in TaskIds :
          tasks'[t].pc = "gb_loop"
            => Len(tasks'[t].prompts) >= 1 /\ Len(tasks'[t].prompts) <= 20
    ]_vars

\* 21 prompts rejected while the stores hold a job and there is room for more
C14_Witness ==
  /\ resp.tool = "generate_batch_images"
  /\ resp.isError
  /\ IsSet(resp.request.prompts)
  /\ Len(ValueOf(resp.request.prompts)) = 21
  /\ Len(jobs) = 1
  /\ Len(calls) = 1


\* the generation call of job j has not settled
InFlight(j) == \E c \in DOMAIN calls : calls[c].jobId = j /\ calls[c].state = "inflight"

\* C15: generate_image answers in the step that creates the job, with the
\* job id, while the generation call is still in flight (unless the call
\* threw at once); and check_job_status on a job whose call is in flight
\* can always be taken up, and answers processing (or pending) in a step
\* that leaves the call in flight.
C15_SubmitDoesNotWait ==
  /\ [](\A j \in JobIds : (Idle /\ InFlight(j)) => ENABLED CheckJobStatus(Some(j)))
  /\ [][/\ (resp' # resp /\ resp'.tool = "generate_image" /\ ~resp'.isError)
             => /\ Len(jobs') = Len(jobs) + 1
                /\ resp'.body.jobId = Len(jobs')
                /\ Len(calls') = Len(calls) + 1
                /\ calls'[Len(calls')].jobId = resp'.body.jobId
                /\ \/ /\ calls'[Len(calls')].state = "inflight"
                      /\ jobs'[Len(jobs')].status \in {"pending", "processing"}
                   \/ /\ calls'[Len(calls')].state = "settled"
                      /\ jobs'[Len(jobs')].status = "failed"
        /\ (resp' # resp /\ resp'.tool = "check_job_status" /\ ~resp'.isError
              /\ InFlight(resp'.body.jobId))
             => /\ resp'.body.status \in {"pending", "processing"}
                /\ calls' = calls
                /\ jobs' = jobs
       ]_vars

\* a status query answered "processing" for a job whose call is in flight
C15_Witness ==
  /\ resp.tool = "check_job_status"
  /\ ~resp.isError
  /\ resp.body.status = "processing"
  /\ InFlight(resp.body.jobId)
  /\ ~IsSet(resp.body.completedAt)


\* the generation call of job j has settled
Settled(j) == \E c \in DOMAIN calls : calls[c].jobId = j /\ calls[c].state = "settled"

\* C16: every failure of the generation call (a rejection, or a response
\* without image data) leaves the job failed with a non-empty error
\* message: a job whose call has settled is completed with a non-empty
\* payload or failed with a non-empty message, never still processing.
C16_FailureHasMessage ==
  \A j \in JobIds :
    /\ Settled(j) => jobs[j].status \in Terminal
    /\ jobs[j].status = "completed"
         => IsSet(jobs[j].result) /\ ValueOf(jobs[j].result) # <<>>
    /\ jobs[j].status = "failed"
         => IsSet(jobs[j].error) /\ ValueOf(jobs[j].error) # ""


\* C17: a failure of the generation call is never raised to the submitter:
\* generate_image and generate_batch_images with arguments the schema
\* accepts always answer with the ids of existing jobs, and a step in
\* which a job turns failed after its submission answers nothing.  The
\* failure shows later: check_job_status of a failed job carries the
\* job's error, and save_image of it fails as not completed.
C17_FailureOnlyRecorded ==
  [][/\ (resp' # resp /\ resp'.tool = "generate_image"
           /\ GenerateImageSchemaOk(resp'.request))
          => ~resp'.isError /\ resp'.body.jobId \in DOMAIN jobs'
     /\ (resp' # resp /\ resp'.tool = "generate_batch_images"
           /\ GenerateBatchImagesSchemaOk(resp'.request))
          => /\ ~resp'.isError
             /\ Len(resp'.body.jobIds) = Len(ValueOf(resp'.request.prompts))
             /\ \A k \in DOMAIN resp'.body.jobIds : resp'.body.jobIds[k] \in DOMAIN jobs'
     /\ (\E j \in JobIds : jobs[j].status # "failed" /\ jobs'[j].status = "failed")
          => resp' = resp
     /\ (resp' # resp /\ resp'.tool = "check_job_status" /\ ~resp'.isError
           /\ jobs[resp'.body.jobId].status = "failed")
          => /\ resp'.body.status = "failed"
             /\ IsSet(resp'.body.error)
             /\ resp'.body.error = jobs[resp'.body.jobId].error
     /\ (AnswersSaveImage /\ HasJob(ValueOf(resp'.request.jobId))
           /\ jobs[ValueOf(resp'.request.jobId)].status = "failed")
          => /\ resp'.isError
             /\ resp'.error.message = "Job is not completed"
             /\ resp'.error.detail = "failed"
    ]_vars

\* the status of a batch member shows the error of its rejected call
C17_Witness ==
  /\ resp.tool = "check_job_status"
  /\ ~resp.isError
  /\ resp.body.status = "failed"
  /\ resp.body.error = Some("quota exceeded")
  /\ \E k \in DOMAIN batchJobs : resp.body.jobId \in Range(batchJobs[k].jobIds)


\* the messages of validation, not-found and invalid-state errors
RejectionMessages ==
  {"Invalid arguments", "Unknown tool", "Job not found", "Batch not found",
   "Job is not completed", "Job has no result data", "File path must end in .png"}

\* C18: a step that answers a tool call with a validation, not-found or
\* invalid-state error changes neither the job store nor the batch store,
\* issues no generation call, and the handler did nothing before it (the
\* error is raised before the handler's first await); every other error
\* answer is a file system error.
C18_RejectionChangesNothing ==
  [][(resp' # resp /\ resp'.tool # "none" /\ resp'.isError)
       => IF resp'.error.message \in RejectionMessages
          THEN /\ jobs' = jobs
               /\ batchJobs' = batchJobs
               /\ calls' = calls
               /\ tasks' = tasks
               /\ resp'.fsCalls = 0
          ELSE resp'.error.message = "fs error"
    ]_vars

\* an unknown tool name is rejected while both stores are populated
C18_Witness ==
  /\ resp.tool # "none"
  /\ resp.isError
  /\ resp.error.message = "Unknown tool"
  /\ Len(jobs) = 2
  /\ Len(batchJobs) = 1


\* C19: every id in the jobIds of a batch in the batch store names a job
\* in the job store, in every state; check_batch_status lists one job per
\* member; and a batch whose submission is still creating jobs is not in
\* the batch store.
C19_MembersExist ==
  /\ \A k \in DOMAIN batchJobs :
       \A i \in DOMAIN batchJobs[k].jobIds : batchJobs[k].jobIds[i] \in DOMAIN jobs
  /\ (resp.tool = "check_batch_status" /\ ~resp.isError)
       => Len(resp.body.jobs) = resp.body.totalCount
  /\ \A t \in TaskIds : tasks[t].pc = "gb_loop" => ~HasBatch(tasks[t].batchId)

\* check_batch_status of a batch of two lists both members, the first
\* failed and the second processing
C19_Witness ==
  /\ resp.tool = "check_batch_status"
  /\ ~resp.isError
  /\ Len(resp.body.jobs) = 2
  /\ batchJobs[1].jobIds = <<1, 2>>
  /\ jobs[1].status = "failed"
  /\ jobs[2].status = "processing"


\* C20: the step that records a batch for prompts p1..pn records n
\* ids in order of creation, the k-th naming the job created for pk (its
\* prompt, and the generation call issued with it), with totalCount = n
\* and the ids the answer returns; and no step changes the id, jobIds,
\* totalCount or createdAt of a recorded batch.
C20_BatchRecord ==
  [][/\ (resp' # resp /\ resp'.tool = "generate_batch_images" /\ ~resp'.isError)
          => LET prompts == ValueOf(resp'.request.prompts)
                 batch == batchJobs'[Len(batchJobs')]
             IN /\ Len(batchJobs') = Len(batchJobs) + 1
                /\ batch.id = resp'.body.batchId
                /\ batch.jobIds = resp'.body.jobIds
                /\ Len(batch.jobIds) = Len(prompts)
                /\ batch.totalCount = Len(prompts)
                /\ resp'.body.totalImages = Len(prompts)
                /\ \A k \in DOMAIN prompts :
                     /\ batch.jobIds[k] \in DOMAIN jobs'
                     /\ jobs'[batch.jobIds[k]].prompt = ValueOf(prompts[k].prompt)
                     /\ \E c \in DOMAIN calls' :
                          /\ calls'[c].jobId = batch.jobIds[k]
                          /\ calls'[c].contents = <<ValueOf(prompts[k].prompt)>>
                /\ \A k, m \in DOMAIN batch.jobIds :
                     k < m => batch.jobIds[k] < batch.jobIds[m]
     /\ \A k \in DOMAIN batchJobs :
          /\ k \in DOMAIN batchJobs'
          /\ batchJobs'[k].id = batchJobs[k].id
          /\ batchJobs'[k].jobIds = batchJobs[k].jobIds
          /\ batchJobs'[k].totalCount = batchJobs[k].totalCount
          /\ batchJobs'[k].createdAt = batchJobs[k].createdAt
    ]_vars

\* the batch of a short and a long prompt, recorded at instant 0, is
\* aggregated and stamped at instant 1
C20_Witness ==
  /\ Len(batchJobs) = 1
  /\ Len(batchJobs[1].jobIds) = 2
  /\ jobs[batchJobs[1].jobIds[1]].prompt = ShortPrompt
  /\ jobs[batchJobs[1].jobIds[2]].prompt = LongPrompt
  /\ batchJobs[1].createdAt = 0
  /\ batchJobs[1].completedAt = Some(1)


\* C21: if every generation call eventually settles, every job in the
\* store eventually is completed or failed; and a processing job changes
\* only in the step in which its own generation call settles, so no tool
\* call moves it out of processing and a call that never settles leaves
\* it there.
C21_SettlesIffCallSettles ==
  /\ \A j \in 1..MaxJobs : (j \in JobIds) ~> (j \in JobIds /\ jobs[j].status \in Terminal)
  /\ [][\A j \in JobIds :
          (jobs[j].status = "processing" /\ jobs'[j] # jobs[j])
            => /\ jobs'[j].status \in Terminal
               /\ \E c \in DOMAIN calls :
                    /\ calls[c].jobId = j
                    /\ calls[c].state = "inflight"
                    /\ calls'[c].state = "settled"
      ]_vars

\* a status query answers "processing" for a job at instant 1, its call
\* still in flight, while the other job's call has settled
C21_Witness ==
  /\ resp.tool = "check_job_status"
  /\ ~resp.isError
  /\ resp.body.status = "processing"
  /\ now = 1
  /\ InFlight(resp.body.jobId)
  /\ \E k \in JobIds : Settled(k) /\ jobs[k].status = "completed"


\* C22: no step removes a record: every job and every batch of the store
\* stays under its id; and check_job_status / check_batch_status of an id
\* that is in the store is never answered with an error.
C22_NeverDeleted ==
  [][/\ \A j \in DOMAIN jobs : j \in DOMAIN jobs' /\ jobs'[j].id = jobs[j].id
     /\ \A b \in BatchIds :
          \E k \in DOMAIN batchJobs' : batchJobs'[k].id = b
     /\ Len(batchJobs') >= Len(batchJobs)
     /\ (resp' # resp /\ resp'.tool = "check_job_status" /\ IsSet(resp'.request)
           /\ ValueOf(resp'.request) \in DOMAIN jobs)
          => ~resp'.isError /\ resp'.body.jobId = ValueOf(resp'.request)
     /\ (resp' # resp /\ resp'.tool = "check_batch_status" /\ IsSet(resp'.request)
           /\ ValueOf(resp'.request) \in BatchIds)
          => ~resp'.isError /\ resp'.body.batchId = ValueOf(resp'.request)
    ]_vars

\* the first job and the batch still answer after the clock advanced and
\* the batch was saved
C22_Witness ==
  /\ resp.tool = "check_batch_status"
  /\ ~resp.isError
  /\ now = 1
  /\ batchJobs[1].createdAt = 0
  /\ jobs[1].createdAt = 0
  /\ DOMAIN files # {}


\* the generation call issued for job j
CallFor(j) == CHOOSE c \in DOMAIN calls : calls[c].jobId = j

\* C23: when generate_batch_images answers, the call issued for the k-th
\* member carries the k-th item's own aspect ratio and model where the item
\* names one, else the batch-level setting, else 1:1 and the pro model; and
\* the options of an issued call never change afterwards.
C23_ItemOptions ==
  /\ [](resp.tool = "generate_batch_images" /\ ~resp.isError
          => \A k \in DOMAIN resp.body.jobIds :
               LET item == ValueOf(resp.request.prompts)[k]
                   call == calls[CallFor(resp.body.jobIds[k])]
               IN /\ call.aspectRatio =
                       IF IsSet(item.aspectRatio) THEN ValueOf(item.aspectRatio)
                       ELSE IF IsSet(resp.request.defaultAspectRatio)
                            THEN ValueOf(resp.request.defaultAspectRatio)
                            ELSE "1:1"
                  /\ call.model =
                       IF IsSet(item.model) THEN ValueOf(item.model)
                       ELSE IF IsSet(resp.request.defaultModel)
                            THEN ValueOf(resp.request.defaultModel)
                            ELSE "gemini-3-pro-image-preview")
  /\ [][\A c \in DOMAIN calls :
          /\ calls'[c].aspectRatio = calls[c].aspectRatio
          /\ calls'[c].model = calls[c].model]_vars

\* a batch whose first item overrides the aspect ratio only and whose
\* second item overrides the model only
C23_Witness ==
  /\ resp.tool = "generate_batch_images"
  /\ ~resp.isError
  /\ Len(resp.body.jobIds) = 2
  /\ calls[CallFor(resp.body.jobIds[1])].aspectRatio = "9:16"
  /\ calls[CallFor(resp.body.jobIds[1])].model = "gemini-2.5-flash-image-preview"
  /\ calls[CallFor(resp.body.jobIds[2])].aspectRatio = "4:3"
  /\ calls[CallFor(resp.body.jobIds[2])].model = "gemini-2.5-flash-image"


\* C24: an answer of check_job_status for a job of the store carries the
\* job's id, current status and full prompt; it has an error field exactly
\* when the job is failed (the stored message), a completedAt exactly when
\* the job is completed or failed, and no field holding the image payload.
C24_StatusAnswer ==
  (resp.tool = "check_job_status" /\ ~resp.isError)
    => LET job == jobs[ValueOf(resp.request)]
           body == resp.body
       IN /\ body.jobId = job.id
          /\ body.status = job.status
          /\ body.prompt = job.prompt
          /\ IsSet(body.error) <=> job.status = "failed"
          /\ job.status = "failed" => body.error = job.error
          /\ IsSet(body.completedAt) <=> job.status \in {"completed", "failed"}
          /\ IsSet(body.completedAt) => body.completedAt = job.completedAt
          /\ DOMAIN body = {"jobId", "status", "prompt", "createdAt", "completedAt",
                            "hasResult", "error"}
          /\ body.hasResult \in {Undefined, Some(TRUE)}

\* a completed job holding a payload is reported, after another job failed
C24_Witness ==
  /\ resp.tool = "check_job_status"
  /\ ~resp.isError
  /\ resp.body.status = "completed"
  /\ IsSet(jobs[ValueOf(resp.request)].result)
  /\ IsSet(resp.body.completedAt)
  /\ \E j \in JobIds : jobs[j].status = "failed"


\* C25: an answer of list_jobs has one entry per job ever created (each
\* creation issued one generation call), whether submitted singly or as a
\* batch member; the k-th entry is the k-th job created, with its current
\* status; totalJobs is the number of jobs created.
C25_ListsEveryJob ==
  resp.tool = "list_jobs"
    => /\ ~resp.isError
       /\ resp.body.totalJobs = Len(calls)
       /\ Len(resp.body.jobs) = Len(calls)
       /\ \A k \in DOMAIN resp.body.jobs :
            LET entry == resp.body.jobs[k]
            IN /\ entry.jobId = calls[k].jobId
               /\ entry.jobId \in JobIds
               /\ entry.status = jobs[entry.jobId].status
               /\ entry.createdAt = jobs[entry.jobId].createdAt
               /\ \A i \in 1..(k - 1) :
                    resp.body.jobs[i].createdAt <= entry.createdAt

\* a single submission and a later batch member, in different statuses
C25_Witness ==
  /\ resp.tool = "list_jobs"
  /\ resp.body.totalJobs = 2
  /\ \E b \in DOMAIN batchJobs : batchJobs[b].jobIds = <<resp.body.jobs[2].jobId>>
  /\ resp.body.jobs[1].status = "failed"
  /\ resp.body.jobs[2].status = "processing"
  /\ resp.body.jobs[1].createdAt < resp.body.jobs[2].createdAt


\* C26: every job has exactly one generation call, issued at its creation;
\* a completed or failed job has no call in flight; no step issues a call
\* for a job that already exists, and a settled call is never in flight
\* again.
C26_CalledOnce ==
  /\ [](\A j \in JobIds :
          /\ Cardinality({c \in DOMAIN calls : calls[c].jobId = j}) = 1
          /\ jobs[j].status \in {"completed", "failed"}
               => \A c \in DOMAIN calls : calls[c].jobId = j => calls[c].state = "settled")
  /\ [][/\ \A c \in DOMAIN calls :
             /\ c \in DOMAIN calls'
             /\ calls'[c].jobId = calls[c].jobId
             /\ calls[c].state = "settled" => calls'[c].state = "settled"
        /\ \A c \in DOMAIN calls' \ DOMAIN calls : calls'[c].jobId \notin JobIds]_vars

\* both jobs are terminal, one failed and one completed, and time has passed
C26_Witness ==
  /\ resp.tool = "list_jobs"
  /\ Len(calls) = 2
  /\ jobs[1].status = "failed"
  /\ jobs[2].status = "completed"
  /\ now = 1
  /\ jobs[2].completedAt = Some(0)


\* the bijections of 1..n
Perms(n) == {f \in [1..n -> 1..n] : \A i, k \in 1..n : i # k => f[i] # f[k]}

\* the job store with the statuses of the first n jobs exchanged along f
Permuted(js, n, f) ==
  [j \in DOMAIN js |-> IF j <= n THEN [js[j] EXCEPT !.status = js[f[j]].status] ELSE js[j]]

\* C27: the aggregate status and the four counts answered by
\* check_batch_status are what getBatchStatus gives for every reassignment
\* of the same statuses to the members: they depend on the number of members
\* in each status only.
C27_OrderIrrelevant ==
  (resp.tool = "check_batch_status" /\ ~resp.isError)
    => LET batch == batchJobs[BatchIndex(resp.body.batchId)]
           n == Len(batch.jobIds)
       IN /\ batch.jobIds = [k \in 1..n |-> k]
          /\ \A f \in Perms(n) :
               LET other == getBatchStatus(batch, Permuted(jobs, n, f))
               IN /\ other.status = resp.body.status
                  /\ other.completedCount = resp.body.completedCount
                  /\ other.failedCount = resp.body.failedCount
                  /\ other.pendingCount = resp.body.pendingCount
                  /\ other.processingCount = resp.body.processingCount
          /\ resp.body.completedCount = NumIn(MemberStatuses(batch), {"completed"})
          /\ resp.body.failedCount = NumIn(MemberStatuses(batch), {"failed"})
          /\ resp.body.pendingCount = NumIn(MemberStatuses(batch), {"pending"})
          /\ resp.body.processingCount = NumIn(MemberStatuses(batch), {"processing"})

\* three members in three different statuses, the failed one first
C27_Witness ==
  /\ resp.tool = "check_batch_status"
  /\ ~resp.isError
  /\ Len(jobs) = 3
  /\ jobs[1].status = "failed"
  /\ jobs[2].status = "processing"
  /\ jobs[3].status = "completed"
  /\ resp.body.status = "processing"
  /\ resp.body.failedCount = 1


\* Two recorded batches: the first of one member, the second of the others,
\* members in any status a tool call can observe, calls of processing
\* members in flight.
InitTwoBatches ==
  \E n \in 2..MaxMembers :
    \E st \in [1..n -> VisibleStatuses] :
      /\ now = 0
      /\ jobs = [j \in 1..n |-> JobInStatus(j, st[j])]
      /\ statusLog = [j \in 1..n |-> LogOfStatus(st[j])]
      /\ calls = [j \in 1..n |-> CallOf(j, st[j])]
      /\ batchJobs = <<NewBatch(1, <<1>>, 1), NewBatch(2, [k \in 1..(n - 1) |-> k + 1], n - 1)>>
      /\ nextBatchId = 2
      /\ tasks = [t \in TaskIds |-> NoTask]
      /\ dirs = {Cwd}
      /\ files = [p \in {} |-> <<>>]
      /\ resp = NoResp

NextTwoBatches ==
  \/ Environment(CoreOutcomes)
  \/ \E arg \in BatchIdArgs : CheckBatchStatus(arg)
  \/ ListBatches

SpecTwoBatches == InitTwoBatches /\ [][NextTwoBatches]_vars

\* a batch record that differs from the old one at most by a completedAt
\* stamped now on a record that had none
StampedOrSame(old, new) ==
  \/ new = old
  \/ /\ ~IsSet(old.completedAt)
     /\ new = [old EXCEPT !.completedAt = Some(now)]

\* C28: a step that answers check_batch_status or list_batches leaves the job
\* store, the generation calls and the files unchanged, keeps the number of
\* batches, and changes a batch record at most by stamping its completedAt;
\* check_batch_status changes no record but that of the batch it was asked
\* about.
C28_AggregationFrame ==
  [][(resp' # resp /\ resp'.tool \in {"check_batch_status", "list_batches"})
       => /\ UNCHANGED <<jobs, calls, statusLog, nextBatchId, now, tasks, dirs, files>>
          /\ DOMAIN batchJobs' = DOMAIN batchJobs
          /\ \A k \in DOMAIN batchJobs :
               /\ StampedOrSame(batchJobs[k], batchJobs'[k])
               /\ batchJobs'[k].id = batchJobs[k].id
               /\ batchJobs'[k].jobIds = batchJobs[k].jobIds
               /\ batchJobs'[k].totalCount = batchJobs[k].totalCount
               /\ batchJobs'[k].createdAt = batchJobs[k].createdAt
               /\ (resp'.tool = "check_batch_status"
                     /\ (resp'.isError \/ resp'.request # Some(batchJobs[k].id)))
                    => batchJobs'[k] = batchJobs[k]
    ]_vars

\* the second batch was queried and stamped while the first, also finished,
\* still has no completedAt
C28_Witness ==
  /\ resp.tool = "check_batch_status"
  /\ ~resp.isError
  /\ Len(batchJobs) = 2
  /\ resp.body.batchId = 2
  /\ batchJobs[2].completedAt = Some(1)
  /\ ~IsSet(batchJobs[1].completedAt)
  /\ jobs[1].status = "completed"


\* C29: whenever a batch loop has a member left to dispatch and no handler
\* is answering, the next dispatch can run, whatever calls are in flight; and
\* every call in flight can settle next with any outcome, whatever other
\* calls are in flight: dispatches do not wait for earlier calls and calls
\* settle in any order.
C29_NoDispatchCap ==
  /\ [](\A t \in TaskIds :
          (tasks[t].pc = "gb_loop" /\ Idle /\ tasks[t].i < Len(tasks[t].prompts))
            => ENABLED GenerateBatchNext(t, NoThrow))
  /\ [](\A c \in DOMAIN calls :
          (calls[c].state = "inflight" /\ Idle)
            => \A outcome \in CoreOutcomes : ENABLED SettleCall(c, outcome))

\* every member of a recorded batch of two is processing at once
C29_Witness ==
  /\ resp.tool = "check_batch_status"
  /\ ~resp.isError
  /\ resp.body.totalCount = 2
  /\ resp.body.processingCount = 2
  /\ \A j \in JobIds : jobs[j].status = "processing" /\ InFlight(j)


\* getBatchStatus as a function of the two stores: a recorded batch of n
\* members of which only the first m are in the job store.
InitPartialStore ==
  \E n \in 1..MaxMembers :
    \E m \in 0..n :
      \E st \in [1..m -> VisibleStatuses] :
        /\ now = 0
        /\ jobs = [j \in 1..m |-> JobInStatus(j, st[j])]
        /\ statusLog = [j \in 1..m |-> LogOfStatus(st[j])]
        /\ calls = [j \in 1..m |-> CallOf(j, st[j])]
        /\ batchJobs = <<NewBatch(1, [j \in 1..n |-> j], n)>>
        /\ nextBatchId = 1
        /\ tasks = [t \in TaskIds |-> NoTask]
        /\ dirs = {Cwd}
        /\ files = [p \in {} |-> <<>>]
        /\ resp = NoResp

SpecPartialStore == InitPartialStore /\ [][NextTwoBatches]_vars

C31_CountsPartition ==
  (resp.tool = "check_batch_status" /\ ~resp.isError)
    => LET batch == batchJobs[BatchIndex(resp.body.batchId)]
           body == resp.body
       IN /\ body.pendingCount + body.processingCount + body.completedCount
               + body.failedCount = body.totalCount
          /\ body.totalCount = Len(batch.jobIds)
          /\ Len(body.jobs) = body.totalCount
          /\ \A k \in DOMAIN body.jobs :
               /\ body.jobs[k].jobId = batch.jobIds[k]
               /\ body.jobs[k].status = jobs[batch.jobIds[k]].status

\* a batch of two, the second member finished before the first
C31_Witness ==
  /\ resp.tool = "check_batch_status"
  /\ ~resp.isError
  /\ resp.body.totalCount = 2
  /\ resp.body.completedCount = 1
  /\ resp.body.processingCount = 1
  /\ Len(resp.body.jobs) = 2
  /\ resp.body.jobs[1].status = "processing"


\* the member statuses of a batch in the next state
MemberStatusesNext(batch) == [k \in DOMAIN batch.jobIds |-> jobs'[batch.jobIds[k]].status]

\* C32: every answer of check_batch_status is determined by the current
\* member statuses (status by the precedence table, counts by tally); and
\* from one state to the next every batch keeps its members, a finished
\* member keeps its status and the number of finished members does not
\* decrease.  Hence completedCount + failedCount never decreases between
\* two aggregations of a batch, and after an answer of completed, partial or
\* failed every later answer has the same status and counts.
C32_ProgressMonotone ==
  /\ []((resp.tool = "check_batch_status" /\ ~resp.isError)
          => LET st == MemberStatuses(batchJobs[BatchIndex(resp.body.batchId)])
             IN /\ resp.body.status = PrecedenceTable(st)
                /\ resp.body.completedCount = NumIn(st, {"completed"})
                /\ resp.body.failedCount = NumIn(st, {"failed"})
                /\ resp.body.pendingCount = NumIn(st, {"pending"})
                /\ resp.body.processingCount = NumIn(st, {"processing"})
                /\ resp.body.totalCount = Len(st))
  /\ [][\A k \in DOMAIN batchJobs :
          LET batch == batchJobs[k]
          IN /\ k \in DOMAIN batchJobs'
             /\ batchJobs'[k].jobIds = batch.jobIds
             /\ batchJobs'[k].totalCount = batch.totalCount
             /\ \A i \in DOMAIN batch.jobIds :
                  MemberStatuses(batch)[i] \in {"completed", "failed"}
                    => MemberStatusesNext(batch)[i] = MemberStatuses(batch)[i]
             /\ NumIn(MemberStatusesNext(batch), {"completed", "failed"})
                  >= NumIn(MemberStatuses(batch), {"completed", "failed"})]_vars

\* a batch stamped by an earlier aggregation is asked again later and is
\* still partial
C32_Witness ==
  /\ resp.tool = "check_batch_status"
  /\ ~resp.isError
  /\ resp.body.batchId = 2
  /\ resp.body.status = "partial"
  /\ resp.body.completedAt = Some(0)
  /\ now = 1


\* C33: a batch with completedAt set has every member completed or failed,
\* each with its own completedAt, none later than the batch's; and a batch's
\* completedAt changes only in a step that answers check_batch_status or
\* list_batches, so a batch that finished without being aggregated since has
\* none.
C33_StampImpliesAllTerminal ==
  /\ [](\A k \in DOMAIN batchJobs :
          IsSet(batchJobs[k].completedAt)
            => \A i \in DOMAIN batchJobs[k].jobIds :
                 LET job == jobs[batchJobs[k].jobIds[i]]
                 IN /\ job.status \in {"completed", "failed"}
                    /\ IsSet(job.completedAt)
                    /\ ValueOf(job.completedAt) <= ValueOf(batchJobs[k].completedAt))
  /\ [][\A k \in DOMAIN batchJobs :
          batchJobs'[k].completedAt # batchJobs[k].completedAt
            => /\ resp' # resp
               /\ resp'.tool \in {"check_batch_status", "list_batches"}
               /\ ~resp'.isError]_vars

\* both members finished at time 0, the clock advanced, nobody has asked:
\* the batch is not stamped
C33_Witness ==
  /\ Len(batchJobs) = 1
  /\ Len(batchJobs[1].jobIds) = 2
  /\ \A i \in 1..2 : jobs[batchJobs[1].jobIds[i]].completedAt = Some(0)
  /\ jobs[batchJobs[1].jobIds[1]].status = "failed"
  /\ jobs[batchJobs[1].jobIds[2]].status = "completed"
  /\ ~IsSet(batchJobs[1].completedAt)
  /\ now = 1
  /\ resp.tool = "none"


\* C34: no stored job is pending in any state between two handler segments;
\* check_job_status and list_jobs never report pending; the answer of
\* generate_image reports pending while the stored job is already processing
\* or failed.
C34_PendingNeverObserved ==
  /\ \A j \in JobIds : jobs[j].status \in {"processing", "completed", "failed"}
  /\ (resp.tool = "check_job_status" /\ ~resp.isError)
       => resp.body.status \in {"processing", "completed", "failed"}
  /\ resp.tool = "list_jobs"
       => \A k \in DOMAIN resp.body.jobs :
            resp.body.jobs[k].status \in {"processing", "completed", "failed"}
  /\ (resp.tool = "generate_image" /\ ~resp.isError)
       => /\ resp.body.status = "pending"
          /\ resp.body.jobId \in JobIds
          /\ jobs[resp.body.jobId].status \in {"processing", "failed"}

\* the submission is answered pending although the call threw at once and
\* the stored job is failed
C34_Witness ==
  /\ resp.tool = "generate_image"
  /\ ~resp.isError
  /\ resp.body.status = "pending"
  /\ jobs[resp.body.jobId].status = "failed"
  /\ \E j \in JobIds : jobs[j].status = "processing"


\* the positions of a handler of save_image or save_batch_images
SavePcs == {"si_mkdir", "si_write", "sb_mkdir", "sb_rejected", "sb_item_mkdir", "sb_item_write"}

\* a step of save_image or save_batch_images: it answers one of them, or
\* starts, advances or ends one of their handlers
SaveStep ==
  \/ resp' # resp /\ resp'.tool \in {"save_image", "save_batch_images"}
  \/ \E t \in TaskIds :
       /\ tasks'[t] # tasks[t]
       /\ tasks[t].pc \in SavePcs \/ tasks'[t].pc \in SavePcs

\* C35: no step of save_image or save_batch_images changes the job store,
\* the batch store (completedAt included) or the generation calls; and
\* save_image of a completed job to a path that was written before is
\* answered with success, the file holding the job's decoded payload, unless
\* the file system itself refuses the call.
C35_SavingChangesNoStore ==
  [][/\ SaveStep => UNCHANGED <<jobs, batchJobs, nextBatchId, calls, statusLog>>
     /\ AnswersSaveImage
          => LET id == ValueOf(resp'.request.jobId)
                 abs == resolve(ValueOf(resp'.request.filePath))
             IN (HasJob(id) /\ jobs[id].status = "completed" /\ abs \in DOMAIN files)
                  => \/ /\ ~resp'.isError
                        /\ files'[abs] = BufferFromBase64(ValueOf(jobs[id].result))
                     \/ /\ resp'.isError
                        /\ resp'.error = [message |-> "fs error", id |-> 0, detail |-> "EACCES"]
    ]_vars

\* the only job, member of a batch that has no completedAt, was saved
\* through its batch and is now saved again by save_image
C35_Witness ==
  /\ resp.tool = "save_image"
  /\ ~resp.isError
  /\ Len(jobs) = 1
  /\ Len(batchJobs) = 1
  /\ ~IsSet(batchJobs[1].completedAt)
  /\ resolve(<<"/", "o", "/", "a", "_", "1", ".", "p", "n", "g">>) \in DOMAIN files
  /\ resolve(ValueOf(resp.request.filePath)) \in DOMAIN files
  /\ Cardinality(DOMAIN files) = 2
  /\ \A p \in DOMAIN files : files[p] = BufferFromBase64(ValueOf(jobs[1].result))


\* the handler t of save_batch_images visits a member in this step: it
\* stands at that member's status check result in the next state
VisitsMember(t) ==
  /\ tasks'[t].pc \in {"sb_rejected", "sb_item_mkdir"}
  /\ tasks[t].pc \in {"sb_mkdir", "sb_rejected", "sb_item_mkdir", "sb_item_write"}
  /\ tasks[t].pc = "sb_mkdir" \/ tasks'[t].i # tasks[t].i

\* C36: each member of the batch is visited at its position, one after the
\* other, and the visit decides by the member's status at that moment: it
\* goes on to write the file exactly when the job is completed then, and
\* otherwise records the not-completed error with the status read then.  A
\* member is appended to saved only by the write that follows its own visit.
\* While a member is being written and no answer is being sent, the call of
\* a member still processing can settle.
C36_StatusReadAtVisit ==
  /\ [][\A t \in TaskIds :
          /\ VisitsMember(t)
               => LET T == tasks'[t]
                      batch == GetBatch(T.batchId)
                      m == batch.jobIds[T.i]
                  IN /\ T.jobIds = batch.jobIds
                     /\ T.i = IF tasks[t].pc = "sb_mkdir" THEN 1 ELSE tasks[t].i + 1
                     /\ T.pc = "sb_item_mkdir" <=> jobs[m].status = "completed"
                     /\ T.pc = "sb_rejected"
                          => T.err = Some([message |-> "Job is not completed", id |-> m,
                                           detail |-> jobs[m].status])
          /\ (tasks[t].pc \in {"sb_mkdir", "sb_rejected", "sb_item_mkdir", "sb_item_write"}
                /\ tasks'[t].pc \in {"sb_rejected", "sb_item_mkdir", "sb_item_write"}
                /\ tasks'[t].saved # tasks[t].saved)
               => /\ tasks[t].pc = "sb_item_write"
                  /\ Len(tasks'[t].saved) = Len(tasks[t].saved) + 1
                  /\ Last(tasks'[t].saved).jobId = tasks[t].jobIds[tasks[t].i]
                  /\ jobs[tasks[t].jobIds[tasks[t].i]].status = "completed"]_vars
  /\ [](\A t \in TaskIds :
          (tasks[t].pc = "sb_item_write" /\ Idle)
            => \A c \in DOMAIN calls :
                 calls[c].state = "inflight"
                   => ENABLED SettleCall(c, Resolved(<< <<ImagePart(PayloadHi)>> >>)))

\* member 1 has been written; member 2, whose call settled after the initial
\* state (its payload is the other one), has passed its visit as completed
C36_Witness ==
  \E t \in TaskIds :
    /\ tasks[t].pc = "sb_item_mkdir"
    /\ tasks[t].i = 2
    /\ Len(tasks[t].saved) = 1
    /\ tasks[t].saved[1].jobId = tasks[t].jobIds[1]
    /\ jobs[tasks[t].jobIds[1]].result = Some(PayloadABC)
    /\ jobs[tasks[t].jobIds[2]].result = Some(PayloadHi)
    /\ Len(tasks[t].jobIds) = 3
    /\ jobs[tasks[t].jobIds[3]].status = "processing"


\* C37: an answer of check_batch_status, and every entry of an answer of
\* list_batches, has a completedAt exactly when the status it reports is
\* completed, partial or failed.
C37_StampMatchesStatus ==
  /\ (resp.tool = "check_batch_status" /\ ~resp.isError)
       => (IsSet(resp.body.completedAt)
             <=> resp.body.status \in {"completed", "partial", "failed"})
  /\ resp.tool = "list_batches"
       => \A k \in DOMAIN resp.body.batches :
            IsSet(resp.body.batches[k].completedAt)
              <=> resp.body.batches[k].status \in {"completed", "partial", "failed"}

\* list_batches is the first to see the batch finished and reports it
\* partial with the stamp of this moment
C37_Witness ==
  /\ resp.tool = "list_batches"
  /\ Len(resp.body.batches) = 1
  /\ resp.body.batches[1].status = "partial"
  /\ resp.body.batches[1].completedAt = Some(1)
  /\ resp.body.batches[1].createdAt = 0
  /\ now = 1

=============================================================================
